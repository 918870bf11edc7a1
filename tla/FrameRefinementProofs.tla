------------------------ MODULE FrameRefinementProofs ------------------------
(***************************************************************************)
(* FrameStream implements OrderedFrames, for any flows, frames, sizes and  *)
(* number of Starts, as long as segments end where frames end or none is   *)
(* late or lost (ImplementsOrderedFrames).  Otherwise a packet need not be *)
(* a frame, and LossIsRepaired is what remains.                            *)
(*                                                                         *)
(* That a packet is a frame follows, in the first case, from every place   *)
(* of a flow being made of whole frames (Aligned), in the second from      *)
(* LossInv with nothing given up (NoLoss).  That none is skipped needs, in *)
(* a single call of Start, that all that was sent is accounted for (Firm). *)
(***************************************************************************)
EXTENDS FrameDeliveryProofs

-----------------------------------------------------------------------------
(* Sets of cells that are made of whole frames. *)

FrameSet(f, k) == First(f, k)..Last(f, k)
Lasts(f) == {Last(f, k) : k \in Frames(f)}
Whole(f, S) == \A c \in S : \E k \in Frames(f) : c \in FrameSet(f, k) /\ FrameSet(f, k) \subseteq S
WholeSegment(f, s) == s.first \in Magic(f) /\ s.last \in Lasts(f)

(* Every cell is in a frame. *)
LEMMA FrameCover ==
  ASSUME NEW f \in Flows, NEW c \in 1..Size(f)
  PROVE  \E k \in Frames(f) : c \in FrameSet(f, k)
<1> DEFINE T == {k \in Frames(f) : c <= Last(f, k)}
<1>1. /\ Len(FrameEnds[f]) \in Frames(f) /\ Size(f) = Last(f, Len(FrameEnds[f]))
      /\ Frames(f) = 1..Len(FrameEnds[f]) /\ Len(FrameEnds[f]) \in Nat /\ c \in Nat \ {0}
  BY FrameEndsType DEF Size
<1>2. Len(FrameEnds[f]) \in T /\ T \in SUBSET Nat
  BY <1>1
<1>3. PICK k \in T : \A j \in T : k <= j
  <2> HIDE DEF T
  <2>1. QED BY <1>2, LeastNat
<1>4. k \in Frames(f) /\ k \in 1..Len(FrameEnds[f]) /\ c <= Last(f, k)
  BY <1>1
<1>5. First(f, k) <= c
  <2>1. CASE k = 1
    BY <1>1, <2>1 DEF First
  <2>2. CASE k # 1
    <3>1. k - 1 \in Frames(f) /\ ~(k <= k - 1)
      BY <1>1, <1>4, <2>2
    <3>2. ~(c <= Last(f, k - 1)) /\ Last(f, k - 1) \in Nat
      BY <1>3, <3>1, FrameEndsType
    <3>3. First(f, k) = Last(f, k - 1) + 1
      BY <2>2 DEF First
    <3>4. QED BY <1>1, <3>2, <3>3
  <2>3. QED BY <2>1, <2>2
<1>6. First(f, k) \in Nat /\ Last(f, k) \in Nat
  BY <1>4, FrameEndsType
<1>7. QED BY <1>1, <1>4, <1>5, <1>6 DEF FrameSet

LEMMA FrameSetType ==
  \A f \in Flows : \A k \in Frames(f) :
    /\ First(f, k) \in Nat \ {0} /\ Last(f, k) \in Nat /\ First(f, k) < Last(f, k)
    /\ First(f, k) \in FrameSet(f, k) /\ Last(f, k) \in FrameSet(f, k)
BY FrameEndsType DEF FrameSet

(* The cells from a magic number on, and those up to the end of a frame,   *)
(* are whole frames if all are.                                            *)
LEMMA WholeFrom ==
  ASSUME NEW f \in Flows, NEW S \in SUBSET Nat, Whole(f, S), NEW j \in Frames(f)
  PROVE  /\ Whole(f, {c \in S : First(f, j) <= c})
         /\ Whole(f, {c \in S : c <= Last(f, j)})
         /\ Whole(f, {c \in S : Last(f, j) < c})
<1>1. ASSUME NEW k \in Frames(f)
      PROVE  \/ Last(f, k) < First(f, j)
             \/ k = j
             \/ Last(f, j) < First(f, k)
  <2>1. j \in Nat /\ k \in Nat
    BY FrameEndsType
  <2>2. CASE k < j
    BY <2>2, FrameOrder
  <2>3. CASE j < k
    BY <2>3, FrameOrder
  <2>4. QED BY <2>1, <2>2, <2>3
<1>2. First(f, j) \in Nat /\ Last(f, j) \in Nat /\ First(f, j) < Last(f, j)
  BY FrameSetType
<1> DEFINE A == {c \in S : First(f, j) <= c}
           B == {c \in S : c <= Last(f, j)}
           C == {c \in S : Last(f, j) < c}
<1>3. ASSUME NEW c \in S
      PROVE  \E k \in Frames(f) : /\ c \in FrameSet(f, k)
                                  /\ c \in A => FrameSet(f, k) \subseteq A
                                  /\ c \in B => FrameSet(f, k) \subseteq B
                                  /\ c \in C => FrameSet(f, k) \subseteq C
  <2>1. PICK k \in Frames(f) : c \in FrameSet(f, k) /\ FrameSet(f, k) \subseteq S
    BY DEF Whole
  <2>2. First(f, k) \in Nat /\ Last(f, k) \in Nat /\ c \in Nat
    BY FrameSetType
  <2>3. \A d \in FrameSet(f, k) : d \in Nat /\ First(f, k) <= d /\ d <= Last(f, k)
    BY <2>2 DEF FrameSet
  <2>4. ASSUME NEW d \in FrameSet(f, k)
        PROVE  /\ First(f, j) <= c => First(f, j) <= d
               /\ c <= Last(f, j) => d <= Last(f, j)
               /\ Last(f, j) < c => Last(f, j) < d
    <3>1. CASE Last(f, k) < First(f, j)
      BY <1>2, <2>1, <2>2, <2>3, <3>1
    <3>2. CASE k = j
      BY <1>2, <2>1, <2>2, <2>3, <3>2
    <3>3. CASE Last(f, j) < First(f, k)
      BY <1>2, <2>1, <2>2, <2>3, <3>3
    <3>4. QED BY <1>1, <3>1, <3>2, <3>3
  <2>5. QED BY <2>1, <2>4
<1> HIDE DEF A, B, C
<1>4. Whole(f, A) /\ Whole(f, B) /\ Whole(f, C)
  <2>1. A \subseteq S /\ B \subseteq S /\ C \subseteq S
    BY DEF A, B, C
  <2>2. QED BY <1>3, <2>1 DEF Whole
<1>5. QED BY <1>4 DEF A, B, C

LEMMA WholeUnion ==
  ASSUME NEW f \in Flows, NEW S, NEW T, Whole(f, S), Whole(f, T)
  PROVE  Whole(f, S \cup T)
BY DEF Whole

LEMMA WholeNone == \A f \in Flows : Whole(f, {})
BY DEF Whole

(* The cells of a segment from a magic number to the end of a frame. *)
LEMMA WholeCells ==
  ASSUME NEW f \in Flows, NEW s \in Segments(f), WholeSegment(f, s)
  PROVE  Whole(f, CellsOf(s))
<1>1. PICK i \in Frames(f) : s.first = First(f, i)
  BY DEF WholeSegment, Magic
<1>2. PICK j \in Frames(f) : s.last = Last(f, j)
  BY DEF WholeSegment, Lasts
<1> DEFINE S == 1..Size(f)
           T == {c \in S : First(f, i) <= c}
<1>3. Size(f) \in Nat /\ s.first \in 1..Size(f) /\ s.last \in 1..Size(f)
  BY CellsType, FrameEndsType
<1>4. Whole(f, S)
  <2> SUFFICES ASSUME NEW c \in S PROVE \E k \in Frames(f) : c \in FrameSet(f, k) /\ FrameSet(f, k) \subseteq S
    BY DEF Whole
  <2>1. PICK k \in Frames(f) : c \in FrameSet(f, k)
    BY FrameCover
  <2>2. First(f, k) \in S /\ Last(f, k) \in S
    BY FrameInSize
  <2>3. FrameSet(f, k) \subseteq S
    BY <1>3, <2>2 DEF FrameSet
  <2>4. QED BY <2>1, <2>3
<1>5. S \in SUBSET Nat /\ T \in SUBSET Nat
  BY <1>3
<1> HIDE DEF S
<1>6. Whole(f, T)
  BY <1>4, <1>5, WholeFrom
<1> HIDE DEF T
<1>7. Whole(f, {c \in T : c <= Last(f, j)})
  BY <1>5, <1>6, WholeFrom
<1>8. CellsOf(s) = {c \in T : c <= Last(f, j)}
  BY <1>1, <1>2, <1>3 DEF CellsOf, T, S
<1>9. QED BY <1>7, <1>8

(* What synchronisation leaves of whole frames. *)
LEMMA WholeSynced ==
  ASSUME NEW f \in Flows, NEW b \in Seq(1..Size(f)), Increasing(b), Whole(f, Rng(b))
  PROVE  Whole(f, Rng(Synced(f, b)))
<1> DEFINE q == Synced(f, b)
<1>1. /\ q \in Seq(1..Size(f)) /\ Increasing(q) /\ Rng(q) \subseteq Rng(b)
      /\ \A c \in Rng(b) \ Rng(q) : \A k \in Rng(q) : c < k
      /\ Size(f) \in Nat
  BY SyncedSplit, FrameEndsType
<1>2. CASE q = <<>>
  BY <1>2, RngEmpty, WholeNone
<1>3. CASE q # <<>>
  <2>1. q[1] \in Magic(f) /\ q[1] \in Rng(q)
    BY <1>1, <1>3, SyncedType, RngType
  <2>2. PICK j \in Frames(f) : q[1] = First(f, j)
    BY <2>1 DEF Magic
  <2> HIDE DEF q
  <2>3. Rng(b) \in SUBSET Nat
    BY <1>1, RngType
  <2>4. \A c \in Rng(q) : q[1] <= c
    <3>1. /\ Len(q) \in Nat /\ DOMAIN q = 1..Len(q)
      BY <1>1
    <3>2. ASSUME NEW i \in 1..Len(q) PROVE q[1] <= q[i]
      <4>1. i = 1 \/ 1 \in 1..i - 1
        BY <3>1
      <4>2. q[1] = q[i] \/ q[1] < q[i]
        BY <1>1, <3>1, <4>1 DEF Increasing
      <4>3. q[1] \in Nat /\ q[i] \in Nat
        <5>1. 1 \in 1..Len(q)
          BY <3>1
        <5>2. q[1] \in 1..Size(f) /\ q[i] \in 1..Size(f)
          BY <1>1, <3>1, <5>1, ElementOfSeq
        <5>3. QED BY <1>1, <5>2
      <4>4. QED BY <4>2, <4>3
    <3>3. QED BY <3>1, <3>2 DEF Rng
  <2>5. \A c \in Rng(b) : q[1] <= c => c \in Rng(q)
    <3> SUFFICES ASSUME NEW c \in Rng(b), q[1] <= c, c \notin Rng(q) PROVE FALSE
      OBVIOUS
    <3>1. c < q[1] /\ c \in Nat /\ q[1] \in Nat
      BY <1>1, <2>1, <2>3
    <3>2. QED BY <3>1
  <2>6. Rng(q) = {c \in Rng(b) : First(f, j) <= c}
    BY <1>1, <2>2, <2>4, <2>5
  <2>7. QED BY <2>3, <2>6, WholeFrom DEF q
<1>4. QED BY <1>2, <1>3

(* The next segment begins with a magic number. *)
LEMMA WholeNext ==
  ASSUME Cut = "frames", NEW f \in Flows, sent[f] \in Lasts(f) \cup {0}, sent[f] \in Nat,
         NEW n \in Ends(f), sent[f] < n
  PROVE  WholeSegment(f, Segment(f, n)) /\ n \in Lasts(f)
<1>1. n \in Lasts(f)
  BY DEF Ends, Lasts
<1>2. sent[f] + 1 \in Magic(f)
  <2>1. CASE sent[f] = 0
    <3>1. 1 \in Frames(f) /\ First(f, 1) = 1
      <4>1. Frames(f) = 1..Len(FrameEnds[f]) /\ Len(FrameEnds[f]) \in Nat \ {0}
        BY FrameEndsType
      <4>2. 1 \in Frames(f)
        BY <4>1
      <4>3. QED BY <4>2 DEF First
    <3>2. QED BY <2>1, <3>1 DEF Magic
  <2>2. CASE sent[f] # 0
    <3>1. PICK k \in Frames(f) : sent[f] = Last(f, k)
      BY <2>2 DEF Lasts
    <3>2. PICK j \in Frames(f) : n = Last(f, j)
      BY <1>1 DEF Lasts
    <3>3. /\ Frames(f) = 1..Len(FrameEnds[f]) /\ Len(FrameEnds[f]) \in Nat
          /\ k \in Nat /\ j \in Nat /\ Last(f, k) \in Nat /\ Last(f, j) \in Nat /\ First(f, k) \in Nat
          /\ First(f, k) <= Last(f, k)
      <4>1. Frames(f) = 1..Len(FrameEnds[f]) /\ Len(FrameEnds[f]) \in Nat
        BY FrameEndsType
      <4>2. k \in Nat /\ j \in Nat
        BY <4>1
      <4>3. /\ Last(f, k) \in Nat /\ Last(f, j) \in Nat /\ First(f, k) \in Nat
            /\ First(f, k) <= Last(f, k)
        BY FrameEndsType
      <4>4. QED BY <4>1, <4>2, <4>3
    <3>4. j < k => Last(f, j) < First(f, k)
      BY FrameOrder
    <3>5. k < j
      BY <3>1, <3>2, <3>3, <3>4
    <3>6. k + 1 \in Frames(f) /\ k + 1 # 1 /\ (k + 1) - 1 = k
      BY <3>3, <3>5
    <3>7. First(f, k + 1) = Last(f, k) + 1
      BY <3>6 DEF First
    <3>8. QED BY <3>1, <3>6, <3>7 DEF Magic
  <2>3. QED BY <2>1, <2>2
<1>3. QED BY <1>1, <1>2 DEF WholeSegment, Segment

-----------------------------------------------------------------------------
(***************************************************************************)
(* A packet is a frame if every byte that the reader has been given is, as *)
(* when segments are cut where frames end and one that is lost takes whole *)
(* frames with it (Aligned), or if no byte is missing.                     *)
(***************************************************************************)
AllWhole(f, q) == \A i \in DOMAIN q : WholeSegment(f, q[i])

Aligned(f) ==
  /\ sent[f] \in Lasts(f) \cup {0}
  /\ Whole(f, Rng(buf[f]))
  /\ AllWhole(f, InHand(f)) /\ AllWhole(f, held[f])
  /\ Known(f) => WholeSegment(f, missing[f])

(* The next cell in the stream is next in an increasing buffer. *)
LEMMA NextCell ==
  ASSUME NEW n \in Nat, NEW b \in Seq(1..n), Increasing(b), NEW i \in 1..Len(b) - 1,
         b[i] + 1 \in Rng(b)
  PROVE  b[i + 1] = b[i] + 1
<1>1. /\ Len(b) \in Nat /\ DOMAIN b = 1..Len(b) /\ i + 1 \in 1..Len(b) /\ i \in 1..Len(b)
      /\ i \in 1..(i + 1) - 1
  OBVIOUS
<1>2. PICK m \in 1..Len(b) : b[m] = b[i] + 1
  BY <1>1 DEF Rng
<1>3. b[i] \in 1..n /\ b[i + 1] \in 1..n /\ b[m] \in 1..n
  BY <1>1, ElementOfSeq
<1>4. b[i] < b[i + 1]
  BY <1>1 DEF Increasing
<1>5. CASE m = i + 1
  BY <1>2, <1>5
<1>6. CASE m <= i
  <2>1. m = i \/ m \in 1..i - 1
    BY <1>1, <1>6
  <2>2. b[m] = b[i] \/ b[m] < b[i]
    BY <1>1, <2>1 DEF Increasing
  <2>3. \A x, z \in 1..n : z = x \/ z < x => z # x + 1
    OBVIOUS
  <2>4. QED BY <1>2, <1>3, <2>2, <2>3, Zenon
<1>7. CASE m > i + 1
  <2>1. i + 1 \in 1..m - 1
    BY <1>1, <1>7
  <2>2. b[i + 1] < b[m]
    BY <1>1, <2>1 DEF Increasing
  <2>3. \A x, y, z \in 1..n : x < y /\ y < z => z # x + 1
    OBVIOUS
  <2>4. QED BY <1>2, <1>3, <1>4, <2>2, <2>3, Zenon
<1>8. QED BY <1>1, <1>5, <1>6, <1>7

LEMMA FrameCellsType ==
  ASSUME NEW f \in Flows, NEW n \in Frames(f)
  PROVE  FrameCells(f, n) \in Seq(1..Size(f)) /\ Rng(FrameCells(f, n)) = FrameSet(f, n)
<1> DEFINE s == [first |-> First(f, n), last |-> Last(f, n)]
<1>1. First(f, n) <= Last(f, n) /\ First(f, n) \in 1..Size(f) /\ Last(f, n) \in 1..Size(f)
  BY FrameEndsType, FrameInSize
<1>2. s \in Segments(f)
  BY <1>1 DEF Segments
<1>3. Cells(s) \in Seq(1..Size(f)) /\ Rng(Cells(s)) = CellsOf(s)
  BY <1>2, CellsType, CellsIncrease
<1>4. QED BY <1>3 DEF FrameCells, FrameSet, CellsOf

LEMMA PacketIsFrame ==
  ASSUME LossInv, NEW f \in Flows, QueueFrame(f),
         Whole(f, Rng(buf[f])) \/ lost[f] = 0
  PROVE  LET b == Synced(f, buf[f])
         IN \E n \in Frames(f) :
              /\ b # <<>> /\ b[1] = First(f, n)
              /\ b \in Seq(1..Size(f)) /\ Increasing(b)
              /\ FrameSet(f, n) \subseteq Rng(b)
              /\ Len(dataCh) < DataBufSize
              /\ dataCh' = Append(dataCh, [flow |-> f, body |-> FrameCells(f, n)])
              /\ DOMAIN buf' = Flows /\ \A g \in Flows \ {f} : buf'[g] = buf[g]
              /\ Rng(buf'[f]) = {c \in Rng(b) : Last(f, n) < c}
<1>1. /\ TypeOK /\ OrderInv /\ FlowInv(f) /\ LossFlow(f)
      /\ buf[f] \in Seq(1..Size(f)) /\ Size(f) \in Nat /\ DOMAIN buf = Flows
      /\ broken[f] \in Nat
  <2>1. OrderInv /\ TypeOK /\ FlowInv(f) /\ LossFlow(f)
    BY DEF LossInv, OrderInv, BaseInv
  <2>2. QED BY <2>1, FrameEndsType DEF TypeOK, ReaderType, OutputType
<1> DEFINE b == Synced(f, buf[f])
<1>2. PICK length \in Nat :
        /\ length \in LengthField(f, b) /\ length <= Len(b) /\ Len(b) >= HeaderLength
        /\ Len(b) \in Nat /\ pc[f] = "running" /\ Len(dataCh) < DataBufSize
        /\ b \in Seq(1..Size(f))
        /\ Read(b, length) \in Seq(1..Size(f)) /\ Len(Read(b, length)) = length
        /\ \A i \in 1..length : Read(b, length)[i] = b[i]
        /\ Rest(b, length) \in Seq(1..Size(f)) /\ Len(Rest(b, length)) = Len(b) - length
        /\ \A i \in 1..Len(b) - length : Rest(b, length)[i] = b[length + i]
        /\ dataCh' = Append(dataCh, [flow |-> f, body |-> Read(b, length)])
        /\ buf' = [buf EXCEPT ![f] = Rest(b, length)]
        /\ broken' = [broken EXCEPT ![f] =
             IF Read(b, length) # <<>> /\ Number([flow |-> f, body |-> Read(b, length)]) = 0
             THEN @ + 1 ELSE @]
  BY <1>1, QueueFrameStep, Zenon
<1> DEFINE p == Read(b, length)
           q == Rest(b, length)
           H == CellsIn(InHand(f))
<1>3. Len(b) > 1 /\ b # <<>> /\ b[1] \in Magic(f)
  <2>1. Len(b) > 1 /\ b # <<>>
    BY <1>2 DEF HeaderLength
  <2>2. QED BY <1>1, <2>1, SyncedType
<1>4. b \in Seq(1..Size(f)) /\ Increasing(b)
  BY <1>1, SyncedSplit DEF FlowInv
<1>5. Whole(f, Rng(buf[f])) => Whole(f, Rng(b))
  BY <1>1, WholeSynced DEF FlowInv
<1>6. buf'[f] = q /\ DOMAIN buf' = Flows /\ \A g \in Flows \ {f} : buf'[g] = buf[g]
  BY <1>1, <1>2
<1>7. Pending(f) = Rng(b) \cup H
  BY DEF Pending
<1>8. AllBelow(Rng(b), H) /\ Pending(f) \in SUBSET (1..Size(f))
  BY <1>1, PendingType
<1>9. lost[f] = 0 => Jumps(Pending(f)) = {}
  <2>1. IsFiniteSet(Jumps(Pending(f))) /\ Cardinality(Jumps(Pending(f))) \in Nat
    BY <1>1, <1>8, JumpsType
  <2>2. broken[f] + Cardinality(Jumps(Pending(f))) <= lost[f]
    BY <1>1, <1>2 DEF LossFlow, Paid
  <2>3. lost[f] = 0 => Cardinality(Jumps(Pending(f))) = 0
    BY <1>1, <2>1, <2>2
  <2>4. QED BY <2>1, <2>3, FS_EmptySet
<1>10. /\ length \in 0..Len(b)
       /\ p \in Seq(1..Size(f)) /\ Len(p) = length /\ \A i \in 1..length : p[i] = b[i]
       /\ q \in Seq(1..Size(f)) /\ Len(q) = Len(b) - length
       /\ \A i \in 1..Len(b) - length : q[i] = b[length + i]
  BY <1>2
<1>11. /\ length \in LengthField(f, b) /\ Len(b) \in Nat /\ Len(dataCh) < DataBufSize
       /\ dataCh' = Append(dataCh, [flow |-> f, body |-> p])
  BY <1>2
<1> SUFFICES \E n \in Frames(f) :
               /\ b # <<>> /\ b[1] = First(f, n) /\ FrameSet(f, n) \subseteq Rng(b)
               /\ p = FrameCells(f, n) /\ Rng(q) = {c \in Rng(b) : Last(f, n) < c}
  BY <1>4, <1>6, <1>11
<1> HIDE DEF b, p, q, H
<1>12. PICK n \in Frames(f) : b[1] = First(f, n)
  BY <1>3 DEF Magic
<1>13. /\ First(f, n) \in Nat /\ Last(f, n) \in Nat /\ First(f, n) < Last(f, n)
       /\ First(f, n) \in FrameSet(f, n) /\ Last(f, n) \in FrameSet(f, n)
  BY FrameSetType
<1>14. DOMAIN b = 1..Len(b)
  BY <1>4
<1>15. ASSUME NEW i \in 1..Len(b) - 1, b[i] \in First(f, n)..Last(f, n) - 1
       PROVE  b[i + 1] = b[i] + 1
  <2>1. /\ i \in 1..Len(b) /\ i + 1 \in 1..Len(b) /\ i \in 1..(i + 1) - 1
    BY <1>11
  <2>2. b[i] \in Rng(b) /\ b[i + 1] \in Rng(b) /\ b[i] < b[i + 1]
    <3>1. b[i] \in Rng(b) /\ b[i + 1] \in Rng(b)
      BY <1>14, <2>1 DEF Rng
    <3>2. b[i] < b[i + 1]
      BY <1>4, <1>14, <2>1 DEF Increasing
    <3>3. QED BY <3>1, <3>2
  <2>3. b[i] + 1 \in Rng(b)
    <3>1. CASE lost[f] = 0
      <4>1. b[i] + 1 \in Rng(b) \cup H
        BY <1>7, <1>9, <2>2, <3>1 DEF Jumps
      <4>2. b[i] + 1 \notin H
        <5>1. b[i + 1] \in Nat /\ b[i] \in Nat
          BY <1>1, <1>7, <1>8, <2>2
        <5>2. b[i] + 1 \in H => b[i + 1] < b[i] + 1
          BY <1>8, <2>2 DEF AllBelow
        <5>3. QED BY <2>2, <5>1, <5>2
      <4>3. QED BY <4>1, <4>2
    <3>2. CASE Whole(f, Rng(b))
      <4>1. PICK k \in Frames(f) : b[i] \in FrameSet(f, k) /\ FrameSet(f, k) \subseteq Rng(b)
        BY <2>2, <3>2 DEF Whole
      <4>2. b[i] \in First(f, n)..Last(f, n) /\ b[i] + 1 \in First(f, n)..Last(f, n)
        BY <1>13, <1>15
      <4>3. k = n
        BY <4>1, <4>2, FrameUnique DEF FrameSet
      <4>4. QED BY <4>1, <4>2, <4>3 DEF FrameSet
    <3>3. QED BY <1>5, <3>1, <3>2
  <2>4. QED BY <1>1, <1>4, <2>3, NextCell
<1>16. length = Length(f, n)
  <2>1. b[2] = b[1] + 1
    <3>1. 1 \in 1..Len(b) - 1 /\ b[1] \in First(f, n)..Last(f, n) - 1
      BY <1>3, <1>11, <1>12, <1>13
    <3>2. b[1 + 1] = b[1] + 1
      BY <1>15, <3>1
    <3>3. QED BY <3>2
  <2>2. LengthField(f, b) = {Length(f, n)}
    BY <1>12, <2>1, LengthRead
  <2>3. QED BY <1>11, <2>2
<1>17. p = FrameCells(f, n)
  <2>1. length \in Nat /\ 1 \in 1..length
    <3>1. length = Length(f, n) /\ Length(f, n) \in Nat \ {0}
      BY <1>16, FrameEndsType DEF HeaderLength, Length
    <3>2. QED BY <3>1
  <2>2. p[1] = First(f, n)
    BY <1>10, <1>12, <2>1
  <2>3. ASSUME NEW i \in 1..Len(p) - 1, p[i] \in First(f, n)..Last(f, n) - 1
        PROVE  p[i + 1] = p[i] + 1
    <3>1. i \in 1..Len(b) - 1 /\ i \in 1..length /\ i + 1 \in 1..length
      BY <1>10, <1>11, <2>1
    <3>2. p[i] = b[i] /\ p[i + 1] = b[i + 1]
      BY <1>10, <3>1
    <3>3. QED BY <1>15, <2>3, <3>1, <3>2
  <2>4. p \in Seq(1..Size(f)) /\ Len(p) = Length(f, n)
    BY <1>10, <1>16
  <2>5. QED BY <2>2, <2>3, <2>4, FrameRead, Zenon
<1>18. Rng(b) = Rng(p) \cup Rng(q) /\ AllBelow(Rng(p), Rng(q))
  <2>1. Parts(b, length, p, q)
    BY <1>10 DEF Parts
  <2>2. QED BY <1>1, <1>4, <1>10, <2>1, IncreasingSplit
<1>19. Rng(p) = FrameSet(f, n)
  BY <1>17, FrameCellsType
<1>20. Rng(q) = {c \in Rng(b) : Last(f, n) < c}
  <2>1. ASSUME NEW c \in Rng(p) PROVE c <= Last(f, n) /\ c \in Nat
    BY <1>13, <1>19 DEF FrameSet
  <2>2. \A c \in Rng(q) : Last(f, n) < c
    BY <1>13, <1>18, <1>19 DEF AllBelow
  <2>3. \A c \in Rng(b) : Last(f, n) < c => c \in Rng(q)
    BY <1>13, <1>18, <2>1
  <2>4. QED BY <1>18, <2>2, <2>3
<1>21. QED BY <1>3, <1>12, <1>17, <1>18, <1>19, <1>20

(* What is handed over and kept of whole segments. *)
LEMMA AllWholeType ==
  ASSUME NEW f \in Flows, NEW q \in Seq(Segments(f)), AllWhole(f, q), NEW s \in Segments(f)
  PROVE  /\ AllWhole(f, <<>>)
         /\ q # <<>> => WholeSegment(f, Head(q)) /\ AllWhole(f, Tail(q))
         /\ WholeSegment(f, s) =>
              AllWhole(f, <<s>>) /\ AllWhole(f, Append(q, s)) /\ AllWhole(f, <<s>> \o q)
<1>1. Len(q) \in Nat /\ DOMAIN q = 1..Len(q)
  OBVIOUS
<1>2. AllWhole(f, <<>>) /\ (WholeSegment(f, s) => AllWhole(f, <<s>>))
  BY DEF AllWhole
<1>3. ASSUME q # <<>> PROVE WholeSegment(f, Head(q)) /\ AllWhole(f, Tail(q))
  <2> DEFINE r == Tail(q)
  <2>1. /\ Head(q) = q[1] /\ 1 \in 1..Len(q) /\ DOMAIN r = 1..Len(q) - 1
        /\ \A i \in 1..Len(q) - 1 : r[i] = q[i + 1] /\ i + 1 \in 1..Len(q)
    BY <1>3
  <2> HIDE DEF r
  <2>2. QED BY <1>1, <2>1 DEF AllWhole, r
<1>4. ASSUME WholeSegment(f, s) PROVE AllWhole(f, Append(q, s))
  <2> DEFINE r == Append(q, s)
  <2>1. /\ DOMAIN r = 1..Len(q) + 1 /\ r[Len(q) + 1] = s
        /\ \A i \in 1..Len(q) : r[i] = q[i]
    OBVIOUS
  <2>2. \A i \in 1..Len(q) + 1 : i = Len(q) + 1 \/ i \in 1..Len(q)
    BY <1>1
  <2> HIDE DEF r
  <2>3. QED BY <1>1, <1>4, <2>1, <2>2 DEF AllWhole, r
<1>5. ASSUME WholeSegment(f, s) PROVE AllWhole(f, <<s>> \o q)
  <2> DEFINE r == <<s>> \o q
  <2>1. /\ DOMAIN r = 1..1 + Len(q) /\ r[1] = s
        /\ \A i \in 2..1 + Len(q) : r[i] = q[i - 1]
    OBVIOUS
  <2>2. \A i \in 1..1 + Len(q) : i = 1 \/ (i \in 2..1 + Len(q) /\ i - 1 \in 1..Len(q))
    BY <1>1
  <2> HIDE DEF r
  <2>3. QED BY <1>1, <1>5, <2>1, <2>2 DEF AllWhole, r
<1>6. QED BY <1>2, <1>3, <1>4, <1>5

LEMMA AlignedSame ==
  ASSUME NEW f \in Flows, Aligned(f), InHand(f)' = InHand(f), sent'[f] = sent[f],
         buf'[f] = <<>> \/ buf'[f] = buf[f], held'[f] = held[f],
         missing'[f] = missing[f] \/ missing'[f] = Unknown \/ missing'[f] = Nothing
  PROVE  Aligned(f)'
<1>1. Whole(f, Rng(buf'[f]))
  BY RngEmpty, WholeNone DEF Aligned
<1>2. QED BY <1>1 DEF Aligned, Known, AllWhole

(* The assembler takes a segment. *)
LEMMA AlignAssemble ==
  ASSUME OrderInv, Cut = "frames", NEW f \in Flows, \A g \in Flows : Aligned(g),
         Receive(f) \/ ReceiveAhead(f) \/ ReceiveLate(f)
  PROVE  \A g \in Flows : Aligned(g)'
<1>1. /\ BaseInv /\ TypeOK /\ PendingInv /\ NothingHeld /\ Aligned(f)
  BY DEF OrderInv, BaseInv
<1>2. NewReader(f) /\ at = "select"
  BY <1>1, ReceiveKeeps, ReceiveAheadKeeps, ReceiveLateKeeps
     DEF Receive, ReceiveAhead, ReceiveLate
<1>3. /\ UNCHANGED current /\ (buf'[f] = <<>> \/ buf'[f] = buf[f])
      /\ \A g \in Flows \ {f} : buf'[g] = buf[g]
  BY <1>2 DEF NewReader
<1>4. /\ sent[f] \in Nat /\ DOMAIN sent = Flows /\ DOMAIN missing = Flows /\ DOMAIN held = Flows
      /\ held[f] \in Seq(Segments(f))
  BY <1>1 DEF TypeOK, NetworkType
<1>5. /\ \/ at' = "offer" /\ flow' = f
         \/ UNCHANGED <<at, flow, batch>>
      /\ \A g \in Flows \ {f} : /\ sent'[g] = sent[g] /\ missing'[g] = missing[g]
                                /\ held'[g] = held[g]
  BY <1>4 DEF Receive, ReceiveAhead, ReceiveLate, Reassembled, GiveUp, capture
<1>6. ASSUME NEW g \in Flows \ {f} PROVE Aligned(g)'
  <2>1. InHand(g)' = InHand(g)
    BY <1>2, <1>3, <1>5 DEF InHand
  <2>2. QED BY <1>3, <1>5, <2>1, AlignedSame
<1>7. Whole(f, Rng(buf'[f]))
  BY <1>1, <1>3, RngEmpty, WholeNone DEF Aligned
<1>8. ASSUME NEW n \in Ends(f), sent[f] < n
      PROVE  WholeSegment(f, Segment(f, n)) /\ Segment(f, n) \in Segments(f) /\ n \in Lasts(f)
  BY <1>1, <1>4, <1>8, WholeNext, NextSegment DEF Aligned
<1>9. AllWhole(f, held[f]) /\ AllWhole(f, <<>>)
  BY <1>1 DEF Aligned, AllWhole
<1>10. CASE Receive(f)
  <2>1. PICK n \in Ends(f) :
          /\ sent[f] < n /\ sent' = [sent EXCEPT ![f] = n] /\ missing[f] = Nothing
          /\ at' = "offer" /\ flow' = f /\ batch' = <<Segment(f, n)>>
          /\ UNCHANGED <<missing, held>>
    BY <1>10 DEF Receive, Reassembled
  <2>2. sent'[f] \in Lasts(f) /\ InHand(f)' = <<Segment(f, n)>> /\ ~Known(f)'
    BY <1>4, <1>8, <2>1 DEF InHand, Known
  <2>3. AllWhole(f, <<Segment(f, n)>>)
    BY <1>4, <1>8, <1>9, <2>1, AllWholeType
  <2>4. Aligned(f)'
    BY <1>7, <1>9, <2>1, <2>2, <2>3 DEF Aligned
  <2>5. QED BY <1>6, <2>4
<1>11. CASE ReceiveLate(f)
  <2>1. /\ Known(f) /\ at' = "offer" /\ flow' = f /\ batch' = <<missing[f]>> \o held[f]
        /\ missing'[f] = Nothing /\ held'[f] = <<>> /\ sent'[f] = sent[f]
    BY <1>4, <1>11 DEF ReceiveLate, Reassembled, Known
  <2>2. missing[f] \in Segments(f) /\ WholeSegment(f, missing[f])
    BY <1>1, <2>1, WasToCome DEF Aligned
  <2>3. AllWhole(f, batch')
    BY <1>4, <1>9, <2>1, <2>2, AllWholeType
  <2>4. InHand(f)' = batch' /\ ~Known(f)'
    BY <2>1 DEF InHand, Known
  <2>5. Aligned(f)'
    BY <1>1, <1>7, <1>9, <2>1, <2>3, <2>4 DEF Aligned
  <2>6. QED BY <1>6, <2>5
<1>12. CASE ReceiveAhead(f)
  <2>1. PICK n \in Ends(f) :
          /\ sent[f] < n /\ sent' = [sent EXCEPT ![f] = n]
          /\ \/ /\ held' = [held EXCEPT ![f] = Append(held[f], Segment(f, n))]
                /\ UNCHANGED <<missing, lost, capture>>
             \/ GiveUp(f) /\ Reassembled(f, Append(held[f], Segment(f, n)))
    BY <1>12 DEF ReceiveAhead
  <2>2. sent'[f] \in Lasts(f) /\ AllWhole(f, Append(held[f], Segment(f, n)))
    BY <1>4, <1>8, <1>9, <2>1, AllWholeType
  <2>3. CASE GiveUp(f) /\ Reassembled(f, Append(held[f], Segment(f, n)))
    <3>1. /\ at' = "offer" /\ flow' = f /\ batch' = Append(held[f], Segment(f, n))
          /\ missing'[f] = Nothing /\ held'[f] = <<>>
      BY <1>4, <2>3 DEF GiveUp, Reassembled
    <3>2. InHand(f)' = Append(held[f], Segment(f, n)) /\ ~Known(f)'
      BY <3>1 DEF InHand, Known
    <3>3. Aligned(f)'
      BY <1>7, <1>9, <2>2, <3>1, <3>2 DEF Aligned
    <3>4. QED BY <1>6, <3>3
  <2>4. CASE /\ held' = [held EXCEPT ![f] = Append(held[f], Segment(f, n))]
             /\ UNCHANGED <<missing, lost, capture>>
    <3>1. /\ UNCHANGED <<missing, at, flow, batch>>
          /\ held'[f] = Append(held[f], Segment(f, n))
      BY <1>4, <2>4 DEF capture
    <3>2. InHand(f)' = InHand(f) /\ Known(f)' = Known(f)
      BY <1>3, <3>1 DEF InHand, Known
    <3>3. Aligned(f)'
      BY <1>1, <1>7, <2>2, <3>1, <3>2 DEF Aligned
    <3>4. QED BY <1>6, <3>3
  <2>5. QED BY <2>1, <2>3, <2>4
<1>13. QED BY <1>10, <1>11, <1>12

(* Tick and FlushAll hand over what is held, or FlushAll closes the link. *)
LEMMA AlignHandHeld ==
  ASSUME OrderInv, NEW f \in Flows, \A g \in Flows : Aligned(g), Tick(f) \/ FlushConnection(f)
  PROVE  \A g \in Flows : Aligned(g)'
<1>1. /\ TypeOK /\ Aligned(f) /\ DOMAIN missing = Flows /\ DOMAIN held = Flows
  BY DEF OrderInv, BaseInv, TypeOK, NetworkType
<1>2. at # "await" /\ at # "offer" /\ UNCHANGED <<sent, current, buf>>
  BY DEF Tick, FlushConnection, reader
<1>3. CASE held[f] # <<>> /\ GiveUp(f) /\ Reassembled(f, held[f])
  <2>1. /\ at' = "offer" /\ flow' = f /\ batch' = held[f]
        /\ missing'[f] = Nothing /\ held'[f] = <<>>
        /\ \A g \in Flows \ {f} : missing'[g] = missing[g] /\ held'[g] = held[g]
    BY <1>1, <1>3 DEF GiveUp, Reassembled
  <2>2. InHand(f)' = held[f] /\ ~Known(f)' /\ \A g \in Flows \ {f} : InHand(g)' = InHand(g)
    BY <1>2, <2>1 DEF InHand, Known
  <2>3. Aligned(f)'
    BY <1>1, <1>2, <2>1, <2>2 DEF Aligned, AllWhole
  <2>4. QED BY <1>2, <2>1, <2>2, <2>3, AlignedSame
<1>4. CASE /\ missing' = [missing EXCEPT ![f] = IF sent[f] < Size(f) THEN Unknown ELSE Nothing]
           /\ UNCHANGED <<held, capture>>
  <2>1. /\ UNCHANGED <<held, at, flow, batch>>
        /\ missing'[f] = Unknown \/ missing'[f] = Nothing
        /\ \A g \in Flows \ {f} : missing'[g] = missing[g]
    BY <1>1, <1>4 DEF capture
  <2>2. \A g \in Flows : InHand(g)' = InHand(g)
    BY <1>2, <2>1 DEF InHand
  <2>3. QED BY <1>2, <2>1, <2>2, AlignedSame
<1>5. QED BY <1>3, <1>4 DEF Tick, FlushConnection

(* The network delays a segment. *)
LEMMA AlignDelay ==
  ASSUME OrderInv, Cut = "frames", NEW f \in Flows, \A g \in Flows : Aligned(g), Delay(f)
  PROVE  \A g \in Flows : Aligned(g)'
<1>1. TypeOK /\ Aligned(f) /\ sent[f] \in Nat /\ DOMAIN missing = Flows /\ DOMAIN sent = Flows
  BY DEF OrderInv, BaseInv, TypeOK, NetworkType
<1>2. PICK n \in Ends(f) :
        /\ sent[f] < n
        /\ missing' = [missing EXCEPT ![f] = Segment(f, n)]
        /\ sent' = [sent EXCEPT ![f] = n]
        /\ UNCHANGED <<held, at, flow, batch, current, buf>>
  BY DEF Delay, capture, reader
<1>3. WholeSegment(f, Segment(f, n)) /\ n \in Lasts(f)
  BY <1>1, <1>2, WholeNext DEF Aligned
<1>4. \A g \in Flows : InHand(g)' = InHand(g)
  BY <1>2 DEF InHand
<1>5. /\ missing'[f] = Segment(f, n) /\ sent'[f] = n
      /\ \A g \in Flows \ {f} : missing'[g] = missing[g] /\ sent'[g] = sent[g]
  BY <1>1, <1>2
<1>6. Aligned(f)'
  BY <1>1, <1>2, <1>3, <1>4, <1>5 DEF Aligned, AllWhole
<1>7. QED BY <1>2, <1>4, <1>5, <1>6, AlignedSame

LEMMA AlignFill ==
  ASSUME OrderInv, NEW f \in Flows, \A g \in Flows : Aligned(g), Fill(f)
  PROVE  \A g \in Flows : Aligned(g)'
<1>1. /\ PendingInv /\ FlowInv(f) /\ Aligned(f)
      /\ DOMAIN buf = Flows /\ DOMAIN current = Flows /\ Size(f) \in Nat
      /\ buf[f] \in Seq(1..Size(f)) /\ current[f] \in Seq(Segments(f))
  BY FrameEndsType DEF OrderInv, BaseInv, TypeOK, ReaderType
<1> DEFINE b == Synced(f, buf[f])
           s == Head(current[f])
           q == Tail(current[f])
<1>2. /\ current[f] # <<>> /\ buf'[f] = b \o Cells(s) /\ current'[f] = q
      /\ \A g \in Flows \ {f} : buf'[g] = buf[g] /\ current'[g] = current[g]
      /\ UNCHANGED <<sent, missing, held, at, flow, batch>>
  BY <1>1 DEF Fill, network, capture
<1>3. at = "await"
  BY <1>1, <1>2 DEF PendingInv, Synchronous, Consuming, Settled
<1>4. InHand(f) = current[f] /\ InHand(f)' = q /\ \A g \in Flows \ {f} : InHand(g)' = InHand(g)
  BY <1>2, <1>3 DEF InHand
<1>5. s \in Segments(f) /\ q \in Seq(Segments(f))
  BY <1>1, <1>2, CellsInSplit
<1>6. WholeSegment(f, s) /\ AllWhole(f, q)
  BY <1>1, <1>2, <1>4, <1>5, AllWholeType DEF Aligned
<1>7. b \in Seq(1..Size(f)) /\ Whole(f, Rng(b))
  BY <1>1, SyncedType, WholeSynced DEF Aligned, FlowInv
<1>8. Cells(s) \in Seq(1..Size(f)) /\ Whole(f, Rng(Cells(s)))
  BY <1>5, <1>6, CellsType, CellsIncrease, WholeCells
<1> HIDE DEF b, s, q
<1>9. Whole(f, Rng(buf'[f]))
  <2>1. Rng(buf'[f]) = Rng(b) \cup Rng(Cells(s))
    BY <1>1, <1>2, <1>7, <1>8, RngConcat
  <2>2. QED BY <1>7, <1>8, <2>1, WholeUnion
<1>10. Aligned(f)'
  BY <1>1, <1>2, <1>4, <1>6, <1>9 DEF Aligned, AllWhole, Known
<1>11. QED BY <1>2, <1>4, <1>10, AlignedSame

LEMMA AlignQueueFrame ==
  ASSUME LossInv, NEW f \in Flows, \A g \in Flows : Aligned(g), QueueFrame(f)
  PROVE  \A g \in Flows : Aligned(g)'
<1>1. /\ FlowInv(f) /\ Aligned(f) /\ buf[f] \in Seq(1..Size(f)) /\ Size(f) \in Nat
  BY FrameEndsType DEF LossInv, OrderInv, BaseInv, TypeOK, ReaderType
<1> DEFINE b == Synced(f, buf[f])
<1>2. PICK n \in Frames(f) :
        /\ b \in Seq(1..Size(f))
        /\ DOMAIN buf' = Flows /\ \A g \in Flows \ {f} : buf'[g] = buf[g]
        /\ Rng(buf'[f]) = {c \in Rng(b) : Last(f, n) < c}
  BY <1>1, PacketIsFrame DEF Aligned
<1>3. Whole(f, Rng(b))
  BY <1>1, WholeSynced DEF Aligned, FlowInv
<1>4. UNCHANGED <<sent, missing, held, at, flow, batch, current>>
  BY DEF QueueFrame, network, capture
<1> HIDE DEF b
<1>5. Whole(f, Rng(buf'[f]))
  <2>1. Rng(b) \in SUBSET Nat
    BY <1>1, <1>2, RngType
  <2>2. QED BY <1>2, <1>3, <2>1, WholeFrom
<1>6. \A g \in Flows : InHand(g)' = InHand(g)
  BY <1>4 DEF InHand
<1>7. Aligned(f)'
  BY <1>1, <1>4, <1>5, <1>6 DEF Aligned, AllWhole, Known
<1>8. QED BY <1>2, <1>4, <1>6, <1>7, AlignedSame

(* The steps that move no byte towards run. *)
Quiet(f) ==
  \/ Stop \/ SeeDone \/ Return \/ SeeEnd \/ Restart \/ NextFrame \/ ReadError
  \/ Finish(f) \/ TakeBatch(f) \/ AskMore(f) \/ EndOfStream(f) \/ ShortRead(f)
  \/ EndEarlier(f) \/ UNCHANGED vars

LEMMA QuietSame ==
  ASSUME TypeOK, NEW f \in Flows, Quiet(f)
  PROVE  /\ UNCHANGED <<sent, missing, held, lost, buf>>
         /\ NextFrame \/ UNCHANGED <<dataCh, got>>
         /\ \A g \in Flows : InHand(g)' = InHand(g) /\ (pc'[g] = "none" => pc[g] = "none")
         /\ flushing /\ ~Restart => flushing'
<1>1. DOMAIN pc = Flows /\ DOMAIN current = Flows
  BY DEF TypeOK, ReaderType
<1>2. CASE TakeBatch(f)
  <2>1. /\ at = "offer" /\ flow = f /\ at' = "await"
        /\ current' = [current EXCEPT ![f] = batch]
        /\ UNCHANGED <<sent, missing, held, lost, buf, pc, dataCh, got, flushing>>
    BY <1>2 DEF TakeBatch, network, output
  <2>2. \A g \in Flows : InHand(g)' = InHand(g)
    BY <1>1, <2>1 DEF InHand
  <2>3. QED BY <2>1, <2>2
<1>3. CASE ~TakeBatch(f)
  <2>1. /\ UNCHANGED <<sent, missing, held, lost, buf>>
        /\ UNCHANGED <<flow, batch, current>>
        /\ at' = "offer" <=> at = "offer"
    BY <1>3 DEF Quiet, Stop, SeeDone, Return, SeeEnd, Restart, NextFrame, ReadError, Finish,
                AskMore, EndOfStream, ShortRead, Die, EndEarlier, vars, network, capture, reader,
                output
  <2>2. NextFrame \/ UNCHANGED <<dataCh, got>>
    BY <1>3 DEF Quiet, Stop, SeeDone, Return, SeeEnd, Restart, ReadError, Finish,
                AskMore, EndOfStream, ShortRead, Die, EndEarlier, vars, output
  <2>3. UNCHANGED pc \/ pc' = [pc EXCEPT ![f] = "dead"]
    BY <1>3 DEF Quiet, Stop, SeeDone, Return, SeeEnd, Restart, NextFrame, ReadError, Finish,
                AskMore, EndOfStream, ShortRead, Die, EndEarlier, vars, reader
  <2>4. flushing /\ ~Restart => flushing'
    BY <1>3 DEF Quiet, Stop, SeeDone, Return, SeeEnd, NextFrame, ReadError, Finish,
                AskMore, EndOfStream, ShortRead, Die, EndEarlier, vars, capture
  <2>5. \A g \in Flows : InHand(g)' = InHand(g) /\ (pc'[g] = "none" => pc[g] = "none")
    BY <1>1, <2>1, <2>3 DEF InHand
  <2>6. QED BY <2>1, <2>2, <2>4, <2>5
<1>4. QED BY <1>2, <1>3

LEMMA AlignNext ==
  ASSUME LossInv, Cut = "frames", \A g \in Flows : Aligned(g), [Next]_vars
  PROVE  \A g \in Flows : Aligned(g)'
<1>1. OrderInv /\ TypeOK /\ flow \in Flows
  BY DEF LossInv, OrderInv, BaseInv, TypeOK, CaptureType
<1>2. ASSUME NEW f \in Flows, Receive(f) \/ ReceiveAhead(f) \/ ReceiveLate(f)
      PROVE  \A g \in Flows : Aligned(g)'
  BY <1>1, <1>2, AlignAssemble
<1>3. ASSUME NEW f \in Flows, Tick(f) \/ FlushConnection(f) PROVE \A g \in Flows : Aligned(g)'
  BY <1>1, <1>3, AlignHandHeld
<1>4. ASSUME NEW f \in Flows, Delay(f) PROVE \A g \in Flows : Aligned(g)'
  BY <1>1, <1>4, AlignDelay
<1>5. ASSUME NEW f \in Flows, Fill(f) PROVE \A g \in Flows : Aligned(g)'
  BY <1>1, <1>5, AlignFill
<1>6. ASSUME NEW f \in Flows, QueueFrame(f) PROVE \A g \in Flows : Aligned(g)'
  BY <1>6, AlignQueueFrame
<1>7. ASSUME NEW f \in Flows, Quiet(f) PROVE \A g \in Flows : Aligned(g)'
  BY <1>1, <1>7, QuietSame, AlignedSame
<1>8. QED BY <1>1, <1>2, <1>3, <1>4, <1>5, <1>6, <1>7 DEF Next, Start, Run, Quiet

-----------------------------------------------------------------------------
(* Where no segment is late or lost, none is given up: the assembler only  *)
(* goes on without a SYN.                                                  *)
NoLoss(f) == lost[f] = 0 /\ ~Known(f)

LEMMA NoLossNext ==
  ASSUME LossInv, ~Gaps, \A g \in Flows : NoLoss(g), [Next]_vars
  PROVE  \A g \in Flows : NoLoss(g)'
<1>1. /\ TypeOK /\ NothingHeld /\ flow \in Flows
      /\ DOMAIN missing = Flows /\ DOMAIN lost = Flows
  BY DEF LossInv, OrderInv, BaseInv, TypeOK, CaptureType, NetworkType
<1>2. ASSUME NEW f \in Flows, missing[f] # Nothing, GiveUp(f) PROVE \A g \in Flows : NoLoss(g)'
  <2>1. missing[f] = Unknown
    BY <1>2 DEF NoLoss, Known
  <2>2. lost' = [lost EXCEPT ![f] = @] /\ missing' = [missing EXCEPT ![f] = Nothing]
    BY <1>2, <2>1 DEF GiveUp
  <2>3. QED BY <1>1, <2>2 DEF NoLoss, Known
<1>3. ASSUME NEW f \in Flows, Receive(f) \/ ReceiveAhead(f) PROVE \A g \in Flows : NoLoss(g)'
  <2>1. CASE UNCHANGED <<missing, lost>>
    BY <2>1 DEF NoLoss, Known
  <2>2. CASE GiveUp(f) /\ missing[f] # Nothing
    BY <1>2, <2>2
  <2>3. QED BY <1>3, <2>1, <2>2 DEF Receive, ReceiveAhead
<1>4. ASSUME NEW f \in Flows PROVE ~ReceiveLate(f) /\ ~Delay(f)
  BY DEF NoLoss, Known, ReceiveLate, Delay
<1>5. ASSUME NEW f \in Flows, Tick(f) \/ FlushConnection(f) PROVE \A g \in Flows : NoLoss(g)'
  <2>1. CASE held[f] # <<>> /\ GiveUp(f)
    BY <1>1, <1>2, <2>1 DEF NothingHeld
  <2>2. CASE /\ missing' = [missing EXCEPT ![f] = IF sent[f] < Size(f) THEN Unknown ELSE Nothing]
             /\ UNCHANGED lost
    BY <1>1, <2>2 DEF NoLoss, Known
  <2>3. QED BY <1>5, <2>1, <2>2 DEF Tick, FlushConnection
<1>6. ASSUME NEW f \in Flows, Fill(f) \/ QueueFrame(f) PROVE \A g \in Flows : NoLoss(g)'
  BY <1>6 DEF Fill, QueueFrame, network, NoLoss, Known
<1>7. ASSUME NEW f \in Flows, Quiet(f) PROVE \A g \in Flows : NoLoss(g)'
  BY <1>1, <1>7, QuietSame DEF NoLoss, Known
<1>8. QED BY <1>1, <1>3, <1>4, <1>5, <1>6, <1>7 DEF Next, Start, Run, Quiet

-----------------------------------------------------------------------------
(* The packets are frames, those of a flow in order. *)
FramesOnly ==
  \A i \in DOMAIN dataCh :
    \E k \in Frames(dataCh[i].flow) : dataCh[i].body = FrameCells(dataCh[i].flow, k)

Accepted(f) ==
  {got[f]} \cup {Number(dataCh[i]) : i \in {j \in DOMAIN dataCh : dataCh[j].flow = f}}

LEMMA FrameQueue ==
  ASSUME TypeOK, FramesOnly
  PROVE  /\ Len(dataCh) \in Nat /\ DOMAIN dataCh = 1..Len(dataCh)
         /\ \A i \in DOMAIN dataCh :
              /\ dataCh[i].flow \in Flows
              /\ Number(dataCh[i]) \in Frames(dataCh[i].flow)
              /\ dataCh[i].body = FrameCells(dataCh[i].flow, Number(dataCh[i]))
              /\ dataCh[i].body \in Seq(1..Size(dataCh[i].flow))
              /\ Rng(dataCh[i].body) = FrameSet(dataCh[i].flow, Number(dataCh[i]))
<1>1. dataCh \in Seq([flow : Flows, body : Seq(Nat)])
  BY DEF TypeOK, OutputType
<1>2. Len(dataCh) \in Nat /\ DOMAIN dataCh = 1..Len(dataCh)
  BY <1>1
<1>3. ASSUME NEW i \in DOMAIN dataCh
      PROVE  /\ dataCh[i].flow \in Flows
             /\ Number(dataCh[i]) \in Frames(dataCh[i].flow)
             /\ dataCh[i].body = FrameCells(dataCh[i].flow, Number(dataCh[i]))
             /\ dataCh[i].body \in Seq(1..Size(dataCh[i].flow))
             /\ Rng(dataCh[i].body) = FrameSet(dataCh[i].flow, Number(dataCh[i]))
  <2>1. dataCh[i] \in [flow : Flows, body : Seq(Nat)]
    BY <1>1, <1>2, ElementOfSeq, Zenon
  <2>2. dataCh[i].flow \in Flows
    BY <2>1
  <2>3. PICK k \in Frames(dataCh[i].flow) : dataCh[i].body = FrameCells(dataCh[i].flow, k)
    BY DEF FramesOnly
  <2>4. Number(dataCh[i]) = k
    BY <2>2, <2>3, NumberOfFrame
  <2>5. QED BY <2>2, <2>3, <2>4, FrameCellsType
<1>4. QED BY <1>2, <1>3

(* What has been accepted was queued, and comes before what is in the      *)
(* buffer.                                                                 *)
LEMMA AcceptedType ==
  ASSUME OrderInv, FramesOnly, NEW f \in Flows, NEW m \in Accepted(f)
  PROVE  /\ m \in Nat
         /\ m # 0 => m \in Frames(f) /\ First(f, m) \in Queued(f)
         /\ \A n \in Frames(f) : First(f, n) \in Rng(buf[f]) => m < n
<1>1. TypeOK /\ FlowInv(f)
  BY DEF OrderInv, BaseInv
<1>2. m # 0 => m \in Frames(f) /\ First(f, m) \in Queued(f)
  <2>1. CASE m = got[f]
    <3>1. m # 0 => m \in Frames(f)
      BY <1>1, <2>1 DEF TypeOK, OutputType
    <3>2. m # 0 => First(f, m) \in Nat
      BY <3>1, FrameEndsType
    <3>3. QED BY <2>1, <3>1, <3>2 DEF Queued
  <2>2. ASSUME NEW i \in DOMAIN dataCh, dataCh[i].flow = f, m = Number(dataCh[i])
        PROVE  m \in Frames(f) /\ First(f, m) \in Queued(f)
    <3>1. m \in Frames(f) /\ Rng(dataCh[i].body) = FrameSet(f, m)
      BY <1>1, <2>2, FrameQueue
    <3>2. First(f, m) \in Nat /\ First(f, m) \in FrameSet(f, m)
      BY <3>1, FrameSetType
    <3>3. QED BY <2>2, <3>1, <3>2 DEF Queued
  <2>3. QED BY <2>1, <2>2 DEF Accepted
<1>3. m \in Nat
  BY <1>2, FrameEndsType
<1>4. ASSUME NEW n \in Frames(f), First(f, n) \in Rng(buf[f]) PROVE m < n
  <2>1. n \in Nat \ {0} /\ First(f, n) \in Nat
    BY FrameEndsType
  <2>2. CASE m = 0
    BY <2>1, <2>2
  <2>3. CASE m # 0
    <3>1. First(f, m) < First(f, n) /\ m \in Frames(f)
      BY <1>1, <1>2, <1>4, <2>3 DEF FlowInv, InChain, Chain, AllBelow
    <3>2. First(f, m) \in Nat /\ Last(f, n) \in Nat /\ First(f, n) <= Last(f, n)
      BY <2>1, <3>1, FrameEndsType
    <3>3. n < m => Last(f, n) < First(f, m)
      BY <3>1, FrameOrder
    <3>4. n # m
      BY <2>1, <3>1
    <3>5. QED BY <1>3, <2>1, <3>1, <3>2, <3>3, <3>4
  <2>4. QED BY <2>2, <2>3
<1>5. QED BY <1>2, <1>3, <1>4

LEMMA AcceptedGrows ==
  ASSUME TypeOK, FramesOnly, NEW f \in Flows, NEW n \in Frames(f), UNCHANGED got,
         dataCh' = Append(dataCh, [flow |-> f, body |-> FrameCells(f, n)])
  PROVE  /\ FramesOnly'
         /\ Accepted(f)' = Accepted(f) \cup {n}
         /\ \A g \in Flows \ {f} : Accepted(g)' = Accepted(g)
<1> DEFINE d == [flow |-> f, body |-> FrameCells(f, n)]
           l == Len(dataCh)
<1>1. /\ DOMAIN dataCh = 1..l /\ DOMAIN dataCh' = 1..l + 1 /\ l \in Nat
      /\ \A i \in 1..l : dataCh'[i] = dataCh[i]
      /\ dataCh'[l + 1] = d
  BY FrameCellsType, QueuedAppend
<1>2. d.flow = f /\ d.body = FrameCells(f, n) /\ Number(d) = n
  BY NumberOfFrame
<1>3. \A i \in 1..l + 1 : i \in 1..l \/ i = l + 1
  BY <1>1
<1>4. \A i \in 1..l : i \in 1..l + 1
  BY <1>1
<1>5. l + 1 \in 1..l + 1
  BY <1>1
<1> HIDE DEF d, l
<1>6. FramesOnly'
  BY <1>1, <1>2, <1>3 DEF FramesOnly
<1>7. ASSUME NEW i \in 1..l PROVE Number(dataCh'[i]) = Number(dataCh[i])
  BY <1>1
<1>8. Number(dataCh'[l + 1]) = n /\ dataCh'[l + 1].flow = f
  BY <1>1, <1>2
<1>9. Accepted(f)' = Accepted(f) \cup {n}
  <2>1. ASSUME NEW x \in Accepted(f)' PROVE x \in Accepted(f) \cup {n}
    <3>1. x = got[f] \/ \E i \in 1..l + 1 : dataCh'[i].flow = f /\ x = Number(dataCh'[i])
      BY <1>1 DEF Accepted
    <3>2. QED BY <1>1, <1>3, <1>7, <1>8, <3>1 DEF Accepted
  <2>2. Accepted(f) \subseteq Accepted(f)'
    <3>1. \A i \in 1..l : dataCh[i].flow = f => Number(dataCh[i]) \in Accepted(f)'
      BY <1>1, <1>4, <1>7 DEF Accepted
    <3>2. QED BY <1>1, <3>1 DEF Accepted
  <2>3. n \in Accepted(f)'
    BY <1>1, <1>5, <1>8 DEF Accepted
  <2>4. QED BY <2>1, <2>2, <2>3
<1>10. ASSUME NEW g \in Flows \ {f} PROVE Accepted(g)' = Accepted(g)
  <2>1. ASSUME NEW x \in Accepted(g)' PROVE x \in Accepted(g)
    <3>1. x = got[g] \/ \E i \in 1..l + 1 : dataCh'[i].flow = g /\ x = Number(dataCh'[i])
      BY <1>1 DEF Accepted
    <3>2. QED BY <1>1, <1>3, <1>7, <1>8, <3>1 DEF Accepted
  <2>2. Accepted(g) \subseteq Accepted(g)'
    <3>1. \A i \in 1..l : dataCh[i].flow = g => Number(dataCh[i]) \in Accepted(g)'
      BY <1>1, <1>4, <1>7 DEF Accepted
    <3>2. QED BY <1>1, <3>1 DEF Accepted
  <2>3. QED BY <2>1, <2>2
<1>11. QED BY <1>6, <1>9, <1>10

(* NextFrame returns the first packet as the frame that it is. *)
LEMMA AcceptedReturns ==
  ASSUME OrderInv, FramesOnly, NextFrame
  PROVE  /\ FramesOnly'
         /\ Len(dataCh) \in Nat \ {0} /\ DOMAIN dataCh = 1..Len(dataCh)
         /\ DOMAIN dataCh' = 1..Len(dataCh) - 1
         /\ \A i \in 1..Len(dataCh) - 1 : dataCh'[i] = dataCh[i + 1]
         /\ dataCh[1].flow \in Flows
         /\ got' = [got EXCEPT ![dataCh[1].flow] = Number(dataCh[1])]
         /\ \A f \in Flows :
              /\ Accepted(f)' \subseteq Accepted(f)
              /\ \A m \in Accepted(f) \ Accepted(f)' : \E n \in Accepted(f)' : m < n
<1>1. /\ TypeOK /\ QueueInv /\ got \in [Flows -> Nat]
  BY DEF OrderInv, BaseInv, TypeOK, OutputType
<1> DEFINE d == dataCh[1]
           f == d.flow
           l == Len(dataCh)
<1>2. /\ l \in Nat \ {0} /\ DOMAIN dataCh = 1..l /\ DOMAIN dataCh' = 1..l - 1
      /\ \A i \in 1..l - 1 : dataCh'[i] = dataCh[i + 1]
      /\ f \in Flows
      /\ \/ Decode(d) = {}
         \/ /\ got'[f] \in Frames(f) /\ First(f, got'[f]) = d.body[1]
            /\ Len(d.body) >= HeaderLength
  BY <1>1, NextFrameStep
<1>3. \/ UNCHANGED got /\ Decode(d) = {}
      \/ \E k \in Decode(d) : got' = [got EXCEPT ![f] = k]
  <2>1. dataCh # <<>> /\ dataCh \in Seq([flow : Flows, body : Seq(Nat)])
    BY <1>1 DEF NextFrame, TypeOK, OutputType
  <2>2. Head(dataCh) = d
    BY <2>1
  <2>3. QED BY <2>2, Zenon DEF NextFrame
<1> HIDE DEF d, f, l
<1>4. 1 \in 1..l /\ (\A i \in 1..l - 1 : i + 1 \in 1..l) /\ \A i \in 1..l : i = 1 \/ i - 1 \in 1..l - 1
  BY <1>2
<1>5. /\ Number(d) \in Frames(f) /\ d.body = FrameCells(f, Number(d))
      /\ d.flow = f /\ dataCh[1] = d
  BY <1>1, <1>2, <1>4, FrameQueue DEF d, f
<1>6. /\ Len(d.body) >= HeaderLength /\ d.body[1] = First(f, Number(d))
      /\ d.body[1] \in First(f, Number(d))..Last(f, Number(d))
  <2>1. /\ First(f, Number(d)) \in Nat /\ Last(f, Number(d)) \in Nat
        /\ First(f, Number(d)) + 1 <= Last(f, Number(d))
    BY <1>2, <1>5, FrameEndsType
  <2>2. /\ Len(FrameCells(f, Number(d))) = Last(f, Number(d)) - First(f, Number(d)) + 1
        /\ FrameCells(f, Number(d))[1] = First(f, Number(d))
    <3> DEFINE a == First(f, Number(d))
               z == Last(f, Number(d))
    <3>1. FrameCells(f, Number(d)) = [i \in 1..z - a + 1 |-> a + i - 1]
      BY DEF FrameCells, Cells
    <3>2. z - a + 1 \in Nat /\ 1 \in 1..z - a + 1 /\ a + 1 - 1 = a
      BY <2>1
    <3> HIDE DEF a, z
    <3>3. Len(FrameCells(f, Number(d))) = z - a + 1 /\ FrameCells(f, Number(d))[1] = a
      BY <3>1, <3>2
    <3>4. QED BY <3>3 DEF a, z
  <2>3. QED BY <1>5, <2>1, <2>2 DEF HeaderLength
<1>7. Decode(d) = {Number(d)}
  <2>1. Decode(d) = {k \in Frames(f) : d.body[1] \in First(f, k)..Last(f, k)}
    <3>1. ~(Len(d.body) < HeaderLength)
      <4>1. Len(d.body) \in Nat
        BY <1>2, <1>5, FrameCellsType
      <4>2. QED BY <1>6, <4>1 DEF HeaderLength
    <3>2. QED BY <1>5, <3>1 DEF Decode
  <2>2. \A k \in Frames(f) : d.body[1] \in First(f, k)..Last(f, k) => k = Number(d)
    BY <1>2, <1>5, <1>6, FrameUnique
  <2>3. QED BY <1>5, <1>6, <2>1, <2>2
<1>8. got' = [got EXCEPT ![f] = Number(d)]
  BY <1>3, <1>7
<1>9. FramesOnly'
  <2> SUFFICES ASSUME NEW i \in 1..l - 1
      PROVE  \E k \in Frames(dataCh'[i].flow) : dataCh'[i].body = FrameCells(dataCh'[i].flow, k)
    BY <1>2 DEF FramesOnly
  <2>1. dataCh'[i] = dataCh[i + 1] /\ i + 1 \in DOMAIN dataCh
    BY <1>2, <1>4
  <2>2. QED BY <2>1 DEF FramesOnly
<1>10. ASSUME NEW g \in Flows
       PROVE  /\ Accepted(g)' \subseteq Accepted(g)
              /\ \A m \in Accepted(g) \ Accepted(g)' : \E n \in Accepted(g)' : m < n
  <2>1. \A i \in 1..l - 1 : Number(dataCh'[i]) = Number(dataCh[i + 1])
    BY <1>2
  <2>2. \A i \in 1..l - 1 : dataCh'[i].flow = g => Number(dataCh'[i]) \in Accepted(g)
    <3>1. \A i \in 1..l - 1 : i + 1 \in DOMAIN dataCh /\ dataCh'[i] = dataCh[i + 1]
      BY <1>2, <1>4
    <3>2. QED BY <2>1, <3>1 DEF Accepted
  <2>3. got'[g] = got[g] \/ (g = f /\ got'[g] = Number(d))
    BY <1>1, <1>2, <1>8
  <2>4. got'[g] \in Accepted(g)
    BY <1>2, <1>4, <1>5, <2>3 DEF Accepted
  <2>5. Accepted(g)' \subseteq Accepted(g)
    BY <1>2, <2>2, <2>4 DEF Accepted
  <2>6. ASSUME NEW m \in Accepted(g), m \notin Accepted(g)'
        PROVE  \E n \in Accepted(g)' : m < n
    <3>1. m # got'[g] /\ got'[g] \in Accepted(g)'
      BY <2>6 DEF Accepted
    <3>2. ASSUME NEW i \in 1..l, dataCh[i].flow = g PROVE Number(dataCh[i]) \in Accepted(g)'
      <4>1. CASE i = 1
        <5>1. g = f /\ got'[f] = Number(d)
          BY <1>1, <1>2, <1>5, <1>8, <3>2, <4>1
        <5>2. QED BY <1>5, <3>1, <4>1, <5>1
      <4>2. CASE i # 1
        <5>1. i - 1 \in 1..l - 1 /\ (i - 1) + 1 = i
          BY <1>2, <1>4, <4>2
        <5>2. dataCh'[i - 1] = dataCh[i]
          BY <1>2, <5>1
        <5>3. QED BY <1>2, <3>2, <5>1, <5>2 DEF Accepted
      <4>3. QED BY <4>1, <4>2
    <3>3. m = got[g]
      BY <1>2, <2>6, <3>2 DEF Accepted
    <3>4. g = f /\ got'[g] = Number(d)
      BY <2>3, <3>1, <3>3
    <3>5. m < Number(d)
      <4>1. Number(d) \in Nat \ {0} /\ First(f, Number(d)) \in Nat
        BY <1>2, <1>5, FrameEndsType
      <4>2. m = 0 \/ m \in Frames(f)
        BY <1>1, <1>2, <3>3, <3>4 DEF TypeOK, OutputType
      <4>3. CASE m = 0
        BY <4>1, <4>3
      <4>4. CASE m # 0
        <5>1. Below(<<First(f, m)>>, d.body)
          BY <1>1, <1>2, <1>4, <1>5, <3>3, <3>4, <4>4 DEF QueueInv
        <5>2. 1 \in DOMAIN d.body
          <6>1. d.body \in Seq(1..Size(f)) /\ d.body # <<>>
            BY <1>2, <1>5, <1>6, FrameCellsType DEF HeaderLength
          <6>2. QED BY <6>1
        <5>3. First(f, m) < First(f, Number(d))
          BY <1>6, <5>1, <5>2 DEF Below
        <5>4. /\ m \in Nat /\ First(f, m) \in Nat /\ Last(f, Number(d)) \in Nat
              /\ First(f, Number(d)) <= Last(f, Number(d))
          BY <1>2, <1>5, <4>2, <4>4, FrameEndsType
        <5>5. Number(d) < m => Last(f, Number(d)) < First(f, m)
          BY <1>2, <1>5, <4>2, <4>4, FrameOrder
        <5>6. m # Number(d)
          BY <4>1, <5>3
        <5>7. QED BY <4>1, <5>3, <5>4, <5>5, <5>6
      <4>5. QED BY <4>3, <4>4
    <3>6. QED BY <3>1, <3>4, <3>5
  <2>7. QED BY <2>5, <2>6
<1>11. QED BY <1>2, <1>5, <1>8, <1>9, <1>10 DEF l, f, d

LEMMA FramesOnlyNext ==
  ASSUME LossInv, FramesOnly, Cut = "frames" \/ ~Gaps,
         Cut = "frames" => \A g \in Flows : Aligned(g), ~Gaps => \A g \in Flows : NoLoss(g),
         [Next]_vars
  PROVE  FramesOnly'
<1>1. TypeOK /\ OrderInv
  BY DEF LossInv, OrderInv, BaseInv
<1>2. CASE UNCHANGED dataCh
  BY <1>2 DEF FramesOnly
<1>3. ASSUME NEW f \in Flows, QueueFrame(f) PROVE FramesOnly'
  <2>1. \E n \in Frames(f) : dataCh' = Append(dataCh, [flow |-> f, body |-> FrameCells(f, n)])
    BY <1>3, PacketIsFrame DEF Aligned, NoLoss
  <2>2. UNCHANGED got
    BY <1>3 DEF QueueFrame
  <2>3. QED BY <1>1, <2>1, <2>2, AcceptedGrows
<1>4. CASE NextFrame
  BY <1>1, <1>4, AcceptedReturns
<1>5. ASSUME NEW f \in Flows,
             \/ Delay(f) \/ Receive(f) \/ ReceiveAhead(f) \/ ReceiveLate(f) \/ Finish(f)
             \/ Tick(f) \/ FlushConnection(f) \/ TakeBatch(f) \/ AskMore(f) \/ Fill(f)
             \/ EndOfStream(f) \/ ShortRead(f) \/ EndEarlier(f)
      PROVE  UNCHANGED dataCh
  BY <1>5 DEF Delay, Receive, ReceiveAhead, ReceiveLate, Finish, Tick, FlushConnection, TakeBatch,
              AskMore, Fill, EndOfStream, ShortRead, Die, EndEarlier, output
<1>6. CASE Stop \/ SeeDone \/ Return \/ SeeEnd \/ Restart \/ ReadError \/ UNCHANGED vars
  BY <1>2, <1>6 DEF Stop, SeeDone, Return, SeeEnd, Restart, ReadError, vars, output
<1>7. QED BY <1>2, <1>3, <1>4, <1>5, <1>6 DEF Next, Start, Run

-----------------------------------------------------------------------------
(***************************************************************************)
(* Where no segment is late and Start is called once, no frame is skipped: *)
(* what was sent of a flow after the frames that have been accepted is     *)
(* with its reader, and synchronisation drops nothing of it.               *)
(***************************************************************************)
Unaccepted(f) == {c \in 1..sent[f] : \A m \in Accepted(f) : m # 0 => Last(f, m) < c}

Firm(f) ==
  /\ held[f] = <<>> /\ (missing[f] # Nothing => flushing) /\ (pc[f] = "none" => buf[f] = <<>>)
  /\ \A m \in Accepted(f) : m # 0 => Last(f, m) <= sent[f]
  /\ Rng(buf[f]) \cup CellsIn(InHand(f)) = Unaccepted(f)

(* A frame of which the reader has a byte begins in its buffer. *)
LEMMA FirmBegins ==
  ASSUME OrderInv, FramesOnly, NEW f \in Flows, Firm(f), NEW c \in Rng(buf[f]),
         NEW k \in Frames(f), First(f, k) <= c, c <= Last(f, k)
  PROVE  First(f, k) \in Rng(buf[f])
<1>1. /\ TypeOK /\ FlowInv(f) /\ sent[f] \in Nat
      /\ buf[f] \in Seq(1..Size(f)) /\ Size(f) \in Nat
  BY FrameEndsType DEF OrderInv, BaseInv, TypeOK, NetworkType, ReaderType
<1>2. c \in Unaccepted(f) /\ c \in Nat
  BY <1>1 DEF Firm, Unaccepted
<1>3. /\ First(f, k) \in Nat \ {0} /\ Last(f, k) \in Nat
  BY FrameEndsType
<1>4. ASSUME NEW m \in Accepted(f), m # 0 PROVE Last(f, m) < First(f, k)
  <2>1. m \in Frames(f) /\ Last(f, m) < c
    BY <1>2, <1>4, AcceptedType DEF Unaccepted
  <2>2. /\ m \in Nat /\ k \in Nat /\ Last(f, m) \in Nat /\ First(f, m) \in Nat
        /\ First(f, m) <= Last(f, m)
    BY <2>1, FrameEndsType
  <2>3. k < m => Last(f, k) < First(f, m)
    BY <2>1, FrameOrder
  <2>4. m # k
    BY <1>2, <1>3, <2>1, <2>2
  <2>5. m < k
    BY <1>2, <1>3, <2>1, <2>2, <2>3, <2>4
  <2>6. QED BY <2>1, <2>5, FrameOrder
<1>5. First(f, k) \in 1..sent[f]
  BY <1>1, <1>2, <1>3 DEF Unaccepted
<1>6. First(f, k) \in Rng(buf[f]) \cup CellsIn(InHand(f))
  BY <1>4, <1>5 DEF Firm, Unaccepted
<1>7. First(f, k) \in CellsIn(InHand(f)) => c < First(f, k)
  BY <1>1 DEF FlowInv, InChain, Chain, AllBelow
<1>8. QED BY <1>2, <1>3, <1>6, <1>7

LEMMA FirmSynced ==
  ASSUME OrderInv, FramesOnly, NEW f \in Flows, Firm(f)
  PROVE  Rng(Synced(f, buf[f])) = Rng(buf[f])
<1> DEFINE b == Synced(f, buf[f])
<1>1. buf[f] \in Seq(1..Size(f)) /\ Size(f) \in Nat /\ FlowInv(f)
  BY FrameEndsType DEF OrderInv, BaseInv, TypeOK, ReaderType
<1>2. /\ Rng(b) \subseteq Rng(buf[f])
      /\ \A c \in Rng(buf[f]) \ Rng(b) : \A k \in Rng(b) : c < k
      /\ \A c \in Rng(buf[f]) \ Rng(b) : c \notin Magic(f)
  BY <1>1, SyncedSplit DEF FlowInv
<1>3. Rng(buf[f]) \subseteq 1..Size(f)
  BY <1>1, RngType
<1> HIDE DEF b
<1>4. ASSUME NEW c \in Rng(buf[f]), c \notin Rng(b) PROVE FALSE
  <2>1. c \in 1..Size(f) /\ c \in Nat
    BY <1>1, <1>3
  <2>2. PICK k \in Frames(f) : c \in FrameSet(f, k)
    BY <2>1, FrameCover
  <2>3. First(f, k) \in Nat /\ Last(f, k) \in Nat /\ First(f, k) <= c /\ c <= Last(f, k)
    BY <2>1, <2>2, FrameSetType DEF FrameSet
  <2>4. First(f, k) \in Rng(buf[f]) /\ First(f, k) \in Magic(f)
    BY <2>3, FirmBegins DEF Magic
  <2>5. First(f, k) \in Rng(b)
    BY <1>2, <2>4
  <2>6. c < First(f, k)
    BY <1>2, <1>4, <2>5
  <2>7. QED BY <2>1, <2>3, <2>6
<1>5. QED BY <1>2, <1>4 DEF b

(* A frame that is queued is the next one. *)
LEMMA FirmAccept ==
  ASSUME OrderInv, FramesOnly, NEW f \in Flows, Firm(f), NEW n \in Frames(f),
         Synced(f, buf[f]) # <<>>, Synced(f, buf[f])[1] = First(f, n)
  PROVE  n - 1 \in Accepted(f)
<1> DEFINE b == Synced(f, buf[f])
<1>1. /\ TypeOK /\ FlowInv(f) /\ buf[f] \in Seq(1..Size(f)) /\ Size(f) \in Nat
      /\ Rng(b) = Rng(buf[f])
  BY FrameEndsType, FirmSynced DEF OrderInv, BaseInv, TypeOK, ReaderType
<1>2. b \in Seq(1..Size(f)) /\ Increasing(b)
  BY <1>1, SyncedSplit DEF FlowInv
<1>3. First(f, n) \in Rng(buf[f])
  <2> HIDE DEF b
  <2>1. b # <<>> /\ b[1] = First(f, n)
    BY DEF b
  <2>2. QED BY <1>1, <1>2, <2>1, RngType
<1>4. \A m \in Accepted(f) : m \in Nat /\ m < n /\ (m # 0 => m \in Frames(f))
  BY <1>3, AcceptedType
<1>5. n \in Nat \ {0} /\ Frames(f) = 1..Len(FrameEnds[f]) /\ Len(FrameEnds[f]) \in Nat
  BY FrameEndsType
<1>6. CASE n = 1
  <2>1. got[f] \in Accepted(f)
    BY DEF Accepted
  <2>2. got[f] = 0
    BY <1>4, <1>6, <2>1
  <2>3. QED BY <1>6, <2>1, <2>2
<1>7. CASE n # 1
  <2> SUFFICES ASSUME n - 1 \notin Accepted(f) PROVE FALSE
    OBVIOUS
  <2> DEFINE k == n - 1
             c == First(f, k)
  <2>1. k \in Frames(f) /\ k < n /\ k \in Nat
    BY <1>5, <1>7
  <2> HIDE DEF k
  <2>2. /\ c \in Nat \ {0} /\ Last(f, k) \in Nat /\ c <= Last(f, k) /\ First(f, n) \in Nat
        /\ Last(f, k) < First(f, n)
    BY <2>1, FrameEndsType, FrameOrder
  <2>3. ASSUME NEW m \in Accepted(f), m # 0 PROVE Last(f, m) < c
    <3>1. m \in Frames(f) /\ m \in Nat /\ m < n /\ m # k
      BY <1>4, <2>3 DEF k
    <3>2. m < k
      BY <1>5, <3>1 DEF k
    <3>3. QED BY <2>1, <3>1, <3>2, FrameOrder
  <2>4. First(f, n) \in Unaccepted(f) /\ sent[f] \in Nat
    BY <1>1, <1>3 DEF Firm, TypeOK, NetworkType
  <2>5. c \in 1..sent[f]
    BY <2>2, <2>4 DEF Unaccepted
  <2>6. c \in Rng(buf[f]) \cup CellsIn(InHand(f))
    BY <2>3, <2>5 DEF Firm, Unaccepted
  <2>7. c < First(f, n)
    BY <2>2
  <2>8. c \in Rng(b)
    <3>1. c \in CellsIn(InHand(f)) => First(f, n) < c
      BY <1>1, <1>3 DEF FlowInv, InChain, Chain, AllBelow
    <3>2. QED BY <1>1, <2>2, <2>6, <2>7, <3>1
  <2> HIDE DEF c
  <2>9. ASSUME NEW i \in 1..Len(b) PROVE First(f, n) <= b[i]
    <3>1. Len(b) \in Nat /\ DOMAIN b = 1..Len(b) /\ 1 \in 1..Len(b)
      BY <1>2
    <3>2. i = 1 \/ 1 \in 1..i - 1
      BY <3>1
    <3>3. b[1] = b[i] \/ b[1] < b[i]
      BY <1>2, <3>1, <3>2 DEF Increasing
    <3>4. b[1] \in 1..Size(f) /\ b[i] \in 1..Size(f)
      BY <1>2, <3>1, ElementOfSeq, Zenon
    <3>5. QED BY <1>1, <3>3, <3>4
  <2>10. First(f, n) <= c
    <3> HIDE DEF b
    <3>1. DOMAIN b = 1..Len(b)
      BY <1>2
    <3>2. QED BY <2>8, <2>9, <3>1 DEF Rng
  <2>11. QED BY <2>2, <2>7, <2>10 DEF c
<1>8. QED BY <1>6, <1>7

(* A flow that a step leaves as it is, though a frame of it may be returned. *)
LEMMA FirmSame ==
  ASSUME OrderInv, FramesOnly, NEW f \in Flows, Firm(f), InHand(f)' = InHand(f),
         sent'[f] = sent[f], held'[f] = held[f], buf'[f] = buf[f],
         missing'[f] # Nothing => flushing', pc'[f] = "none" => pc[f] = "none",
         Accepted(f)' \subseteq Accepted(f),
         \A m \in Accepted(f) \ Accepted(f)' : \E n \in Accepted(f)' : m < n
  PROVE  Firm(f)'
<1>1. sent[f] \in Nat
  BY DEF OrderInv, BaseInv, TypeOK, NetworkType
<1>2. ASSUME NEW m \in Accepted(f), m # 0, NEW n \in Accepted(f), m < n
      PROVE  n # 0 /\ Last(f, m) < Last(f, n)
  <2>1. m \in Nat /\ n \in Nat
    BY AcceptedType
  <2>2. n # 0
    BY <1>2, <2>1
  <2>3. m \in Frames(f) /\ n \in Frames(f)
    BY <1>2, <2>2, AcceptedType
  <2>4. Last(f, m) < First(f, n)
    BY <1>2, <2>3, FrameOrder
  <2>5. First(f, n) \in Nat /\ Last(f, n) \in Nat /\ Last(f, m) \in Nat /\ First(f, n) <= Last(f, n)
    BY <2>3, FrameEndsType
  <2>6. QED BY <2>2, <2>4, <2>5
<1>3. ASSUME NEW c \in 1..sent[f], \A m \in Accepted(f)' : m # 0 => Last(f, m) < c,
             NEW m \in Accepted(f), m # 0
      PROVE  Last(f, m) < c
  <2>1. CASE m \in Accepted(f)'
    BY <1>3, <2>1
  <2>2. CASE m \notin Accepted(f)'
    <3>1. PICK n \in Accepted(f)' : m < n
      BY <2>2
    <3>2. n \in Accepted(f) /\ n # 0 /\ Last(f, m) < Last(f, n)
      BY <1>2, <1>3, <3>1
    <3>3. Last(f, n) < c
      BY <1>3, <3>1, <3>2
    <3>4. Last(f, m) \in Nat /\ Last(f, n) \in Nat
      BY <1>3, <3>2, AcceptedType, FrameEndsType
    <3>5. QED BY <1>1, <3>2, <3>3, <3>4
  <2>3. QED BY <2>1, <2>2
<1>4. Unaccepted(f)' = Unaccepted(f)
  <2>1. Unaccepted(f)' \subseteq Unaccepted(f)
    BY <1>3 DEF Unaccepted
  <2>2. Unaccepted(f) \subseteq Unaccepted(f)'
    BY DEF Unaccepted
  <2>3. QED BY <2>1, <2>2
<1>5. QED BY <1>4 DEF Firm

LEMMA FirmReceive ==
  ASSUME OrderInv, FramesOnly, NEW f \in Flows, \A g \in Flows : Firm(g), Receive(f)
  PROVE  \A g \in Flows : Firm(g)'
<1>1. /\ BaseInv /\ TypeOK /\ ClosedLink /\ PendingInv /\ Firm(f) /\ sent[f] \in Nat
      /\ DOMAIN sent = Flows /\ sent[f] <= Size(f) /\ Size(f) \in Nat
  BY FrameEndsType DEF OrderInv, BaseInv, TypeOK, NetworkType
<1>2. PICK n \in Ends(f) :
        /\ sent[f] < n /\ sent' = [sent EXCEPT ![f] = n] /\ missing[f] = Nothing
        /\ at = "select" /\ at' = "offer" /\ flow' = f /\ batch' = <<Segment(f, n)>>
        /\ UNCHANGED <<missing, held, flushing, dataCh, got>>
  BY DEF Receive, Reassembled, output
<1>3. /\ Segment(f, n) \in Segments(f) /\ n \in Nat /\ n <= Size(f)
      /\ Segment(f, n).first = sent[f] + 1 /\ Segment(f, n).last = n
      /\ sent'[f] = n /\ \A g \in Flows \ {f} : sent'[g] = sent[g]
  <2>1. n <= Size(f)
    BY <1>1, EndsType
  <2>2. QED BY <1>1, <1>2, <2>1, NextSegment
<1>4. NewReader(f)
  BY <1>1, ReceiveKeeps
<1>5. /\ UNCHANGED current /\ pc'[f] # "none"
      /\ \A g \in Flows \ {f} : buf'[g] = buf[g] /\ pc'[g] = pc[g]
  BY <1>4 DEF NewReader
<1>6. buf'[f] = buf[f]
  <2>1. link[f] # "closed"
    BY <1>1, <1>2, <1>3, Distinct DEF ClosedLink
  <2>2. \/ pc[f] = "none" /\ buf' = [buf EXCEPT ![f] = <<>>]
        \/ UNCHANGED buf
    BY <2>1 DEF Receive, New, reader
  <2>3. DOMAIN buf = Flows
    BY <1>1 DEF TypeOK, ReaderType
  <2>4. QED BY <1>1, <2>2, <2>3 DEF Firm
<1>7. Accepted(f)' = Accepted(f) /\ \A g \in Flows : Accepted(g)' = Accepted(g)
  BY <1>2 DEF Accepted
<1>8. ASSUME NEW g \in Flows \ {f} PROVE Firm(g)'
  <2>1. InHand(g)' = InHand(g)
    BY <1>2, <1>5 DEF InHand
  <2>2. missing'[g] # Nothing => flushing'
    BY <1>2 DEF Firm
  <2>3. QED BY <1>2, <1>3, <1>5, <1>7, <2>1, <2>2, FirmSame
<1>9. Firm(f)'
  <2>1. InHand(f) = <<>> /\ InHand(f)' = <<Segment(f, n)>>
    <3>1. InHand(f) = <<>>
      BY <1>1, <1>2, NothingInHand
    <3>2. QED BY <1>2, <3>1 DEF InHand
  <2>2. CellsIn(InHand(f)) = {} /\ CellsIn(InHand(f)') = (sent[f] + 1)..n
    BY <1>3, <2>1, CellsInOne, RngEmpty DEF CellsOf
  <2>3. Rng(buf'[f]) \cup CellsIn(InHand(f)') = Unaccepted(f) \cup (sent[f] + 1)..n
    BY <1>1, <1>6, <2>2 DEF Firm
  <2>4. ASSUME NEW m \in Accepted(f), m # 0 PROVE Last(f, m) \in Nat /\ Last(f, m) <= sent[f]
    BY <1>1, <2>4, AcceptedType, FrameEndsType DEF Firm
  <2>5. Unaccepted(f)' = Unaccepted(f) \cup (sent[f] + 1)..n
    <3>1. Unaccepted(f)' = {c \in 1..n : \A m \in Accepted(f) : m # 0 => Last(f, m) < c}
      BY <1>3, <1>7 DEF Unaccepted
    <3>2. ASSUME NEW c \in 1..n, c > sent[f], NEW m \in Accepted(f), m # 0 PROVE Last(f, m) < c
      BY <1>1, <1>3, <2>4, <3>2
    <3>3. \A c \in 1..n : c \in 1..sent[f] \/ (c > sent[f] /\ c \in (sent[f] + 1)..n)
      BY <1>1, <1>3
    <3>4. \A c \in 1..sent[f] : c \in 1..n
      BY <1>1, <1>2, <1>3
    <3>5. \A c \in (sent[f] + 1)..n : c \in 1..n /\ c > sent[f]
      BY <1>1, <1>3
    <3>6. QED BY <3>1, <3>2, <3>3, <3>4, <3>5 DEF Unaccepted
  <2>6. \A m \in Accepted(f) : m # 0 => Last(f, m) <= sent'[f]
    <3> SUFFICES ASSUME NEW m \in Accepted(f), m # 0 PROVE Last(f, m) <= n
      BY <1>3
    <3>1. Last(f, m) \in Nat /\ Last(f, m) <= sent[f]
      BY <2>4
    <3>2. QED BY <1>1, <1>2, <1>3, <3>1
  <2>7. QED BY <1>1, <1>2, <1>5, <1>7, <2>3, <2>5, <2>6 DEF Firm
<1>10. QED BY <1>8, <1>9

LEMMA FirmFill ==
  ASSUME OrderInv, FramesOnly, NEW f \in Flows, \A g \in Flows : Firm(g), Fill(f)
  PROVE  \A g \in Flows : Firm(g)'
<1>1. /\ PendingInv /\ Firm(f) /\ FlowInv(f)
      /\ DOMAIN buf = Flows /\ DOMAIN current = Flows /\ Size(f) \in Nat
      /\ buf[f] \in Seq(1..Size(f)) /\ current[f] \in Seq(Segments(f))
  BY FrameEndsType DEF OrderInv, BaseInv, TypeOK, ReaderType
<1> DEFINE b == Synced(f, buf[f])
           s == Head(current[f])
           q == Tail(current[f])
<1>2. /\ current[f] # <<>> /\ buf'[f] = b \o Cells(s) /\ current'[f] = q /\ pc[f] # "none"
      /\ \A g \in Flows \ {f} : buf'[g] = buf[g] /\ current'[g] = current[g]
      /\ UNCHANGED <<sent, missing, held, at, flow, batch, flushing, pc, dataCh, got>>
  BY <1>1 DEF Fill, network, capture, output
<1>3. at = "await"
  BY <1>1, <1>2 DEF PendingInv, Synchronous, Consuming, Settled
<1>4. InHand(f) = current[f] /\ InHand(f)' = q /\ \A g \in Flows \ {f} : InHand(g)' = InHand(g)
  BY <1>2, <1>3 DEF InHand
<1>5. s \in Segments(f) /\ CellsIn(current[f]) = CellsOf(s) \cup CellsIn(q)
  BY <1>1, <1>2, CellsInSplit
<1>6. b \in Seq(1..Size(f)) /\ Rng(b) = Rng(buf[f])
  BY <1>1, SyncedType, FirmSynced
<1>7. Cells(s) \in Seq(1..Size(f)) /\ Rng(Cells(s)) = CellsOf(s)
  BY <1>5, CellsType, CellsIncrease
<1>8. \A g \in Flows : Accepted(g)' = Accepted(g) /\ Unaccepted(g)' = Unaccepted(g)
  BY <1>2 DEF Accepted, Unaccepted
<1> HIDE DEF b, s, q
<1>9. Rng(buf'[f]) \cup CellsIn(q) = Rng(buf[f]) \cup CellsIn(current[f])
  <2>1. Rng(buf'[f]) = Rng(b) \cup Rng(Cells(s))
    BY <1>1, <1>2, <1>6, <1>7, RngConcat
  <2>2. QED BY <1>5, <1>6, <1>7, <2>1
<1>10. Firm(f)'
  BY <1>1, <1>2, <1>4, <1>8, <1>9 DEF Firm
<1>11. \A g \in Flows \ {f} : missing'[g] # Nothing => flushing'
  BY <1>2 DEF Firm
<1>12. QED BY <1>2, <1>4, <1>8, <1>10, <1>11, FirmSame

LEMMA FirmQueueFrame ==
  ASSUME LossInv, FramesOnly, NEW f \in Flows, \A g \in Flows : Firm(g) /\ NoLoss(g),
         QueueFrame(f)
  PROVE  \A g \in Flows : Firm(g)'
<1>1. /\ OrderInv /\ TypeOK /\ Firm(f) /\ FlowInv(f) /\ Size(f) \in Nat
      /\ buf[f] \in Seq(1..Size(f)) /\ sent[f] \in Nat
  BY FrameEndsType DEF LossInv, OrderInv, BaseInv, TypeOK, ReaderType, NetworkType
<1> DEFINE b == Synced(f, buf[f])
           H == CellsIn(InHand(f))
<1>2. PICK n \in Frames(f) :
        /\ FrameSet(f, n) \subseteq Rng(b)
        /\ dataCh' = Append(dataCh, [flow |-> f, body |-> FrameCells(f, n)])
        /\ \A g \in Flows \ {f} : buf'[g] = buf[g]
        /\ Rng(buf'[f]) = {c \in Rng(b) : Last(f, n) < c}
  BY PacketIsFrame DEF NoLoss
<1>3. Rng(b) = Rng(buf[f])
  BY <1>1, FirmSynced
<1>4. /\ UNCHANGED <<sent, missing, held, at, flow, batch, current, flushing, pc, got>>
      /\ pc[f] = "running"
  BY DEF QueueFrame, network, capture
<1>5. \A g \in Flows : InHand(g)' = InHand(g)
  BY <1>4 DEF InHand
<1>6. Accepted(f)' = Accepted(f) \cup {n} /\ \A g \in Flows \ {f} : Accepted(g)' = Accepted(g)
  BY <1>1, <1>2, <1>4, AcceptedGrows
<1> HIDE DEF b, H
<1>7. ASSUME NEW g \in Flows \ {f} PROVE Firm(g)'
  <2>1. missing'[g] # Nothing => flushing'
    BY <1>4 DEF Firm
  <2>2. QED BY <1>1, <1>2, <1>4, <1>5, <1>6, <2>1, FirmSame
<1>8. Firm(f)'
  <2>1. Last(f, n) \in Nat \ {0} /\ n # 0 /\ Last(f, n) \in Rng(buf[f])
    BY <1>2, <1>3, FrameSetType, FrameEndsType
  <2>2. Rng(buf[f]) \cup H = Unaccepted(f)
    BY <1>1 DEF Firm, H
  <2>3. Last(f, n) <= sent[f]
    BY <1>1, <2>1, <2>2 DEF Unaccepted
  <2>4. \A c \in H : Last(f, n) < c
    BY <1>1, <2>1 DEF FlowInv, InChain, Chain, AllBelow, H
  <2>5. Unaccepted(f)' = {c \in Unaccepted(f) : Last(f, n) < c}
    BY <1>4, <1>6, <2>1 DEF Unaccepted
  <2>6. Rng(buf'[f]) \cup H = Unaccepted(f)'
    BY <1>2, <1>3, <2>2, <2>4, <2>5
  <2>7. QED BY <1>1, <1>4, <1>5, <1>6, <2>3, <2>6 DEF Firm, H
<1>9. QED BY <1>7, <1>8

LEMMA FirmNext ==
  ASSUME LossInv, FramesOnly, ~Gaps, MaxStarts = 1, \A g \in Flows : Firm(g) /\ NoLoss(g),
         [Next]_vars
  PROVE  \A g \in Flows : Firm(g)'
<1>1. /\ OrderInv /\ TypeOK /\ Flushing /\ flow \in Flows /\ starts = 1
      /\ DOMAIN missing = Flows /\ \A g \in Flows : Firm(g)
  BY DEF LossInv, OrderInv, BaseInv, TypeOK, CaptureType, NetworkType
<1>2. ASSUME NEW f \in Flows PROVE ~ReceiveAhead(f) /\ ~ReceiveLate(f) /\ ~Tick(f) /\ ~Delay(f)
  <2>1. at = "select" => missing[f] = Nothing
    BY <1>1 DEF Firm, Flushing
  <2>2. held[f] = <<>>
    BY <1>1 DEF Firm
  <2>3. QED BY <2>1, <2>2 DEF ReceiveAhead, ReceiveLate, Tick, Delay
<1>3. ~Restart
  BY <1>1 DEF Restart
<1>4. ASSUME NEW f \in Flows, Receive(f) PROVE \A g \in Flows : Firm(g)'
  BY <1>1, <1>4, FirmReceive
<1>5. ASSUME NEW f \in Flows, Fill(f) PROVE \A g \in Flows : Firm(g)'
  BY <1>1, <1>5, FirmFill
<1>6. ASSUME NEW f \in Flows, QueueFrame(f) PROVE \A g \in Flows : Firm(g)'
  BY <1>6, FirmQueueFrame
<1>7. ASSUME NEW f \in Flows, FlushConnection(f) PROVE \A g \in Flows : Firm(g)'
  <2>1. held[f] = <<>>
    BY <1>1 DEF Firm
  <2>2. /\ UNCHANGED <<sent, held, at, flow, batch, flushing, current, buf, pc, dataCh, got>>
        /\ flushing
    BY <1>1, <1>7, <2>1 DEF FlushConnection, capture, output, Flushing
  <2>3. \A g \in Flows : InHand(g)' = InHand(g) /\ Accepted(g)' = Accepted(g)
    BY <2>2 DEF InHand, Accepted
  <2>4. QED BY <1>1, <2>2, <2>3, FirmSame
<1>8. ASSUME NEW f \in Flows, Quiet(f) PROVE \A g \in Flows : Firm(g)'
  <2> TAKE g \in Flows
  <2>1. /\ UNCHANGED <<sent, missing, held, buf>>
        /\ InHand(g)' = InHand(g) /\ (pc'[g] = "none" => pc[g] = "none")
        /\ flushing => flushing'
        /\ NextFrame \/ UNCHANGED <<dataCh, got>>
    BY <1>1, <1>3, <1>8, QuietSame
  <2>2. /\ Accepted(g)' \subseteq Accepted(g)
        /\ \A m \in Accepted(g) \ Accepted(g)' : \E n \in Accepted(g)' : m < n
    <3>1. CASE NextFrame
      BY <1>1, <3>1, AcceptedReturns
    <3>2. CASE UNCHANGED <<dataCh, got>>
      BY <3>2 DEF Accepted
    <3>3. QED BY <2>1, <3>1, <3>2
  <2>3. missing'[g] # Nothing => flushing'
    BY <1>1, <2>1 DEF Firm
  <2>4. QED BY <1>1, <2>1, <2>2, <2>3, FirmSame
<1>9. QED BY <1>1, <1>2, <1>3, <1>4, <1>5, <1>6, <1>7, <1>8 DEF Next, Start, Run, Quiet

-----------------------------------------------------------------------------
(* The steps of OrderedFrames. *)
LEMMA WaitingType ==
  ASSUME TypeOK, FramesOnly
  PROVE  /\ Waiting \in Seq(Flows \X Nat) /\ Len(Waiting) = Len(dataCh) /\ Len(dataCh) \in Nat
         /\ DOMAIN dataCh = 1..Len(dataCh)
         /\ \A i \in 1..Len(dataCh) : Waiting[i] = <<dataCh[i].flow, Number(dataCh[i])>>
<1>1. /\ Len(dataCh) \in Nat /\ DOMAIN dataCh = 1..Len(dataCh)
      /\ \A i \in 1..Len(dataCh) : dataCh[i].flow \in Flows /\ Number(dataCh[i]) \in Nat
  BY FrameQueue, FrameEndsType
<1>2. Waiting \in Seq(Flows \X Nat) /\ Len(Waiting) = Len(dataCh)
  <2> DEFINE e(i) == <<dataCh[i].flow, Number(dataCh[i])>>
             n == Len(dataCh)
  <2>1. \A i \in 1..n : e(i) \in Flows \X Nat
    BY <1>1
  <2>2. Waiting = [i \in 1..n |-> e(i)] /\ n \in Nat
    BY <1>1 DEF Waiting
  <2> HIDE DEF e, n
  <2>3. Waiting \in Seq(Flows \X Nat) /\ Len(Waiting) = n
    BY <2>1, <2>2
  <2>4. QED BY <2>3 DEF n
<1>3. \A i \in 1..Len(dataCh) : Waiting[i] = <<dataCh[i].flow, Number(dataCh[i])>>
  BY <1>1 DEF Waiting
<1>4. QED BY <1>1, <1>2, <1>3

(* The abstract acceptance of a flow is that of the waiting packets. *)
LEMMA SameAccepted ==
  ASSUME TypeOK, FramesOnly, NEW f \in Flows
  PROVE  Ordered!Accepted(f) = Accepted(f)
<1>1. Ordered!Accepted(f) =
        {got[f]} \cup {Waiting[i][2] : i \in {j \in DOMAIN Waiting : Waiting[j][1] = f}}
  BY DEF Ordered!Accepted
<1>2. DOMAIN Waiting = DOMAIN dataCh
  BY DEF Waiting
<1>3. \A i \in DOMAIN dataCh : Waiting[i][1] = dataCh[i].flow /\ Waiting[i][2] = Number(dataCh[i])
  BY WaitingType
<1>4. QED BY <1>1, <1>2, <1>3 DEF Accepted

LEMMA AcceptStep ==
  ASSUME LossInv, LossInv', FramesOnly, FramesOnly', NEW f \in Flows, QueueFrame(f),
         Whole(f, Rng(buf[f])) \/ lost[f] = 0,
         Gaps \/ MaxStarts > 1 \/ Firm(f)
  PROVE  \E n \in 1..Len(FrameEnds[f]) : Ordered!Accept(f, n)
<1>1. TypeOK /\ TypeOK' /\ OrderInv /\ FlowInv(f) /\ buf[f] \in Seq(1..Size(f)) /\ Size(f) \in Nat
  BY FrameEndsType DEF LossInv, OrderInv, BaseInv, TypeOK, ReaderType
<1> DEFINE b == Synced(f, buf[f])
<1>2. PICK n \in Frames(f) :
        /\ b # <<>> /\ b[1] = First(f, n) /\ FrameSet(f, n) \subseteq Rng(b)
        /\ Len(dataCh) < DataBufSize
        /\ dataCh' = Append(dataCh, [flow |-> f, body |-> FrameCells(f, n)])
  BY PacketIsFrame
<1>3. UNCHANGED got
  BY DEF QueueFrame
<1>4. First(f, n) \in Rng(buf[f])
  <2>1. Rng(b) \subseteq Rng(buf[f])
    BY <1>1, SyncedSplit DEF FlowInv
  <2>2. QED BY <1>2, <2>1, FrameSetType
<1>5. \A m \in Accepted(f) : m < n
  BY <1>1, <1>4, AcceptedType
<1>6. Gaps \/ MaxStarts > 1 \/ n - 1 \in Accepted(f)
  BY <1>1, <1>2, FirmAccept
<1> HIDE DEF b
<1> DEFINE d == [flow |-> f, body |-> FrameCells(f, n)]
           l == Len(dataCh)
<1>7. /\ l \in Nat /\ DOMAIN dataCh' = 1..l + 1
      /\ \A i \in 1..l : dataCh'[i] = dataCh[i]
      /\ dataCh'[l + 1] = d
  BY <1>1, <1>2, <1>3, FrameCellsType, QueuedAppend
<1>8. Number(d) = n /\ d.flow = f
  BY NumberOfFrame
<1>9. n \in Nat /\ Frames(f) = 1..Len(FrameEnds[f])
  BY FrameEndsType
<1>10. Waiting' = Append(Waiting, <<f, n>>)
  <2> DEFINE w == Append(Waiting, <<f, n>>)
             v == Waiting'
  <2>1. /\ Waiting \in Seq(Flows \X Nat) /\ Len(Waiting) = l
        /\ \A i \in 1..l : Waiting[i] = <<dataCh[i].flow, Number(dataCh[i])>>
    BY <1>1, WaitingType
  <2>2. /\ w \in Seq(Flows \X Nat) /\ Len(w) = l + 1
        /\ \A i \in 1..l : w[i] = Waiting[i]
        /\ w[l + 1] = <<f, n>>
    <3>1. <<f, n>> \in Flows \X Nat
      BY <1>9
    <3> HIDE DEF l
    <3>2. QED BY <1>7, <2>1, <3>1, AppendProperties
  <2>3. v = [i \in 1..l + 1 |-> <<dataCh'[i].flow, Number(dataCh'[i])>>]
    <3> HIDE DEF l
    <3>1. QED BY <1>7 DEF Waiting
  <2>4. \A i \in 1..l + 1 : i \in 1..l \/ i = l + 1
    BY <1>7
  <2>5. \A i \in 1..l + 1 : v[i] = w[i]
    <3> HIDE DEF l, w, d
    <3>1. \A i \in 1..l : v[i] = <<dataCh[i].flow, Number(dataCh[i])>>
      BY <1>7, <2>3, <2>4
    <3>2. v[l + 1] = <<f, n>>
      BY <1>7, <1>8, <2>3
    <3>3. QED BY <2>1, <2>2, <2>4, <3>1, <3>2
  <2>6. v \in Seq(Flows \X Nat) /\ Len(v) = l + 1
    <3>1. /\ Waiting' \in Seq(Flows \X Nat) /\ Len(Waiting') = Len(dataCh') /\ Len(dataCh') \in Nat
          /\ DOMAIN dataCh' = 1..Len(dataCh')
      <4>1. /\ Len(dataCh') \in Nat /\ DOMAIN dataCh' = 1..Len(dataCh')
        <5>1. dataCh' \in Seq([flow : Flows, body : Seq(Nat)])
          BY <1>1 DEF TypeOK, OutputType
        <5>2. QED BY <5>1
      <4>2. \A i \in 1..l + 1 : v[i] \in Flows \X Nat
        <5>1. \A i \in 1..l + 1 : w[i] \in Flows \X Nat
          <6> HIDE DEF w, l
          <6>1. QED BY <2>2, ElementOfSeq
        <5>2. QED BY <2>5, <5>1
      <4>3. l + 1 \in Nat /\ DOMAIN v = 1..l + 1
        BY <1>7, <2>3
      <4> HIDE DEF l, w
      <4>4. v \in Seq(Flows \X Nat) /\ Len(v) = l + 1
        <5>1. v \in [1..l + 1 -> Flows \X Nat]
          BY <2>3, <4>2
        <5>2. QED BY <4>3, <5>1
      <4>5. Len(dataCh') = l + 1
        BY <1>7, <4>1
      <4>6. QED BY <4>1, <4>4, <4>5
    <3>2. Len(dataCh') = l + 1
      BY <1>7, <3>1
    <3>3. QED BY <3>1, <3>2
  <2> HIDE DEF w, v, l
  <2>7. v = w
    BY <2>2, <2>5, <2>6, SeqEqual
  <2>8. QED BY <2>7 DEF v, w
<1>11. Ordered!Accepted(f) = Accepted(f) /\ Len(Waiting) = Len(dataCh)
  <2>1. TypeOK /\ FramesOnly
    BY <1>1
  <2>2. Len(Waiting) = Len(dataCh)
    BY <2>1, WaitingType
  <2>3. Ordered!Accepted(f) = Accepted(f)
    BY <2>1, SameAccepted
  <2>4. QED BY <2>2, <2>3
<1>12. Ordered!Accept(f, n)
  <2>1. Len(Waiting) < DataBufSize
    BY <1>2, <1>11
  <2>2. \A m \in Ordered!Accepted(f) : m < n
    BY <1>5, <1>11
  <2>3. Gaps \/ MaxStarts > 1 \/ n - 1 \in Ordered!Accepted(f)
    BY <1>6, <1>11
  <2>4. QED BY <1>3, <1>10, <2>1, <2>2, <2>3 DEF Ordered!Accept
<1>13. QED BY <1>9, <1>12

(* What is left of a queue behind its head. *)
LEMMA TailIs ==
  ASSUME NEW S, NEW w \in Seq(S), w # <<>>
  PROVE  Tail(w) = [i \in 1..Len(w) - 1 |-> w[i + 1]]
<1>1. /\ Tail(w) \in Seq(S) /\ Len(w) \in Nat \ {0} /\ Len(Tail(w)) = Len(w) - 1
      /\ \A i \in 1..Len(Tail(w)) : Tail(w)[i] = w[i + 1]
  BY HeadTailProperties, LenProperties, EmptySeq
<1> DEFINE t == Tail(w)
<1>2. t \in Seq(S) /\ Len(t) = Len(w) - 1
  BY <1>1
<1> HIDE DEF t
<1>3. t \in [1..Len(w) - 1 -> S]
  <2>1. t \in [1..Len(t) -> S]
    BY <1>2, LenProperties
  <2>2. QED BY <1>2, <2>1
<1>4. \A i \in 1..Len(w) - 1 : t[i] = w[i + 1]
  BY <1>1, <1>2 DEF t
<1>5. QED BY <1>3, <1>4 DEF t

LEMMA ReturnStep ==
  ASSUME OrderInv, FramesOnly, NextFrame
  PROVE  Ordered!Return
<1>1. /\ Len(dataCh) \in Nat \ {0} /\ DOMAIN dataCh = 1..Len(dataCh)
      /\ DOMAIN dataCh' = 1..Len(dataCh) - 1
      /\ \A i \in 1..Len(dataCh) - 1 : dataCh'[i] = dataCh[i + 1]
      /\ got' = [got EXCEPT ![dataCh[1].flow] = Number(dataCh[1])]
  BY AcceptedReturns
<1>2. /\ Waiting \in Seq(Flows \X Nat) /\ Len(Waiting) = Len(dataCh)
      /\ \A i \in 1..Len(dataCh) : Waiting[i] = <<dataCh[i].flow, Number(dataCh[i])>>
  BY WaitingType DEF OrderInv, BaseInv
<1> DEFINE l == Len(dataCh)
<1>3. Waiting # <<>> /\ Head(Waiting) = <<dataCh[1].flow, Number(dataCh[1])>>
  <2>1. 1 \in 1..l
    BY <1>1
  <2>2. QED BY <1>1, <1>2, <2>1
<1>4. Waiting' = Tail(Waiting)
  <2>1. Waiting' = [i \in 1..l - 1 |-> <<dataCh'[i].flow, Number(dataCh'[i])>>]
    BY <1>1 DEF Waiting
  <2>2. Tail(Waiting) = [i \in 1..l - 1 |-> Waiting[i + 1]]
    BY <1>1, <1>2, <1>3, TailIs
  <2>3. ASSUME NEW i \in 1..l - 1
        PROVE  Waiting[i + 1] = <<dataCh'[i].flow, Number(dataCh'[i])>>
    <3>1. i + 1 \in 1..l
      BY <1>1
    <3>2. QED BY <1>1, <1>2, <3>1
  <2>4. QED BY <2>1, <2>2, <2>3
<1>5. got' = [got EXCEPT ![Head(Waiting)[1]] = Head(Waiting)[2]]
  <2> DEFINE h == Head(Waiting)
             p == dataCh[1].flow
             q == Number(dataCh[1])
  <2>1. h = <<p, q>> /\ got' = [got EXCEPT ![p] = q]
    BY <1>1, <1>3
  <2> HIDE DEF h, p, q
  <2>2. h[1] = p /\ h[2] = q
    BY <2>1
  <2>3. got' = [got EXCEPT ![h[1]] = h[2]]
    BY <2>1, <2>2
  <2>4. QED BY <2>3 DEF h
<1>6. QED BY <1>3, <1>4, <1>5 DEF Ordered!Return

(* The invariant of the refinement. *)
OrderedInv ==
  /\ LossInv /\ FramesOnly
  /\ Cut = "frames" => \A f \in Flows : Aligned(f)
  /\ ~Gaps => \A f \in Flows : NoLoss(f)
  /\ ~Gaps /\ MaxStarts = 1 => \A f \in Flows : Firm(f)

LEMMA OrderedInit == Init => OrderedInv /\ Ordered!Init
<1> SUFFICES ASSUME Init PROVE OrderedInv /\ Ordered!Init
  OBVIOUS
<1>1. LossInv
  BY LossInit
<1>2. dataCh = <<>> /\ got = [f \in Flows |-> 0] /\ FramesOnly
  BY DEF Init, FramesOnly
<1>3. ASSUME NEW f \in Flows
      PROVE  /\ sent[f] = 0 /\ held[f] = <<>> /\ buf[f] = <<>> /\ InHand(f) = <<>> /\ ~Known(f)
             /\ lost[f] = 0 /\ (~Gaps => missing[f] = Nothing) /\ Accepted(f) = {0}
  BY <1>2 DEF Init, InHand, Known, Accepted
<1>4. ASSUME NEW f \in Flows PROVE Aligned(f) /\ NoLoss(f) /\ (~Gaps => Firm(f))
  <2>1. Rng(buf[f]) = {} /\ CellsIn(InHand(f)) = {} /\ Unaccepted(f) = {}
    BY <1>3, RngEmpty DEF Unaccepted
  <2>2. Aligned(f)
    BY <1>3, <2>1, WholeNone DEF Aligned, AllWhole
  <2>3. ~Gaps => Firm(f)
    BY <1>3, <2>1 DEF Firm
  <2>4. QED BY <1>3, <2>2, <2>3 DEF NoLoss
<1>5. Ordered!Init
  <2>1. Waiting = <<>>
    BY <1>2 DEF Waiting
  <2>2. QED BY <1>2, <2>1 DEF Ordered!Init
<1>6. QED BY <1>1, <1>2, <1>4, <1>5 DEF OrderedInv

LEMMA OrderedNext ==
  ASSUME Cut = "frames" \/ ~Gaps
  PROVE  OrderedInv /\ [Next]_vars => OrderedInv' /\ [Ordered!Next]_(Ordered!vars)
<1> SUFFICES ASSUME OrderedInv, [Next]_vars PROVE OrderedInv' /\ [Ordered!Next]_(Ordered!vars)
  OBVIOUS
<1>1. /\ LossInv /\ OrderInv /\ FramesOnly /\ flow \in Flows
      /\ Cut = "frames" => \A f \in Flows : Aligned(f)
      /\ ~Gaps => \A f \in Flows : NoLoss(f)
      /\ ~Gaps /\ MaxStarts = 1 => \A f \in Flows : Firm(f)
  BY DEF OrderedInv, LossInv, OrderInv, BaseInv, TypeOK, CaptureType
<1>2. LossInv' /\ FramesOnly'
  BY <1>1, LossNext, FramesOnlyNext
<1>3. OrderedInv'
  BY <1>1, <1>2, AlignNext, NoLossNext, FirmNext DEF OrderedInv
<1>4. [Ordered!Next]_(Ordered!vars)
  <2>1. ASSUME UNCHANGED <<dataCh, got>> PROVE UNCHANGED Ordered!vars
    BY <2>1 DEF Ordered!vars, Waiting
  <2>2. CASE NextFrame
    BY <1>1, <2>2, ReturnStep DEF Ordered!Next
  <2>3. ASSUME NEW f \in Flows, QueueFrame(f) PROVE Ordered!Next
    <3>1. MaxStarts > 1 \/ MaxStarts = 1
      BY FrameStreamAssumption
    <3>2. Whole(f, Rng(buf[f])) \/ lost[f] = 0
      BY <1>1 DEF Aligned, NoLoss
    <3>3. \E n \in 1..Len(FrameEnds[f]) : Ordered!Accept(f, n)
      BY <1>1, <1>2, <2>3, <3>1, <3>2, AcceptStep
    <3>4. QED BY <3>3 DEF Ordered!Next
  <2>4. ASSUME NEW f \in Flows,
               \/ Delay(f) \/ Receive(f) \/ ReceiveAhead(f) \/ ReceiveLate(f)
               \/ Tick(f) \/ FlushConnection(f) \/ Fill(f) \/ (Quiet(f) /\ ~NextFrame)
        PROVE  UNCHANGED <<dataCh, got>>
    BY <1>1, <2>4, QuietSame DEF Delay, Receive, ReceiveAhead, ReceiveLate, Tick,
         FlushConnection, Fill, output, OrderInv, BaseInv
  <2>5. QED BY <1>1, <2>1, <2>2, <2>3, <2>4 DEF Next, Start, Run, Quiet
<1>5. QED BY <1>3, <1>4

(* Frames reach NextFrame (sniffer.go:234) whole, in order and once each,  *)
(* and none is skipped if Start is called once and no segment is late:     *)
(* where segments end where frames do, or none is late or lost, reassembly *)
(* implements OrderedFrames.                                               *)
THEOREM ImplementsOrderedFrames ==
  ASSUME Cut = "frames" \/ ~Gaps
  PROVE  Spec => DeliversInOrder
<1>1. Init => OrderedInv /\ Ordered!Init
  BY OrderedInit
<1>2. OrderedInv /\ [Next]_vars => OrderedInv' /\ [Ordered!Next]_(Ordered!vars)
  BY OrderedNext
<1>3. QED BY <1>1, <1>2, PTL DEF Spec, DeliversInOrder, Ordered!Spec
-----------------------------------------------------------------------------
(***************************************************************************)
(* Where segments end with frames, every frame a reader begins is there to *)
(* its end: no reader ends before its connection, and none drops a byte.   *)
(* EndsWithConnection is inductive only with what makes bytes whole frames *)
(* (Aligned), and HandedOn tells of the times between the calls into the   *)
(* assembler only; in between the last cell sent is on its way (NoDrop).   *)
(***************************************************************************)

(* Synchronisation drops nothing of whole frames. *)
LEMMA WholeKept ==
  ASSUME NEW f \in Flows, NEW b \in Seq(1..Size(f)), Increasing(b), Whole(f, Rng(b))
  PROVE  Rng(Synced(f, b)) = Rng(b)
<1> DEFINE q == Synced(f, b)
<1>1. /\ Rng(q) \subseteq Rng(b)
      /\ \A c \in Rng(b) \ Rng(q) : \A k \in Rng(q) : c < k
      /\ \A c \in Rng(b) \ Rng(q) : c \notin Magic(f)
  BY SyncedSplit
<1>2. Rng(b) \subseteq Nat
  BY RngType, FrameEndsType
<1> HIDE DEF q
<1>3. ASSUME NEW c \in Rng(b), c \notin Rng(q) PROVE FALSE
  <2>1. PICK k \in Frames(f) : c \in FrameSet(f, k) /\ FrameSet(f, k) \subseteq Rng(b)
    BY DEF Whole
  <2>2. /\ First(f, k) \in Nat /\ First(f, k) \in Rng(b) /\ First(f, k) \in Magic(f)
        /\ First(f, k) <= c /\ c \in Nat
    BY <1>2, <2>1, FrameSetType DEF Magic, FrameSet
  <2>3. c < First(f, k)
    BY <1>1, <1>3, <2>2
  <2>4. QED BY <2>2, <2>3
<1>4. QED BY <1>1, <1>3 DEF q

(* A synced buffer of whole frames begins with one. *)
LEMMA WholeHead ==
  ASSUME OrderInv, NEW f \in Flows, Whole(f, Rng(buf[f])), Synced(f, buf[f]) # <<>>
  PROVE  LET b == Synced(f, buf[f])
         IN /\ b \in Seq(1..Size(f)) /\ Increasing(b)
            /\ \E n \in Frames(f) : b[1] = First(f, n) /\ FrameSet(f, n) \subseteq Rng(b)
<1> DEFINE b == Synced(f, buf[f])
<1>1. buf[f] \in Seq(1..Size(f)) /\ Increasing(buf[f])
  BY DEF OrderInv, BaseInv, TypeOK, ReaderType, FlowInv
<1>2. /\ b \in Seq(1..Size(f)) /\ Increasing(b) /\ Whole(f, Rng(b)) /\ b[1] \in Magic(f)
  BY <1>1, SyncedSplit, SyncedType, WholeSynced
<1>3. b[1] \in Rng(b)
  <2> HIDE DEF b
  <2>1. b # <<>>
    BY DEF b
  <2>2. QED BY <1>2, <2>1, RngType, FrameEndsType
<1> HIDE DEF b
<1>4. PICK n \in Frames(f) : b[1] = First(f, n)
  BY <1>2 DEF Magic
<1>5. PICK k \in Frames(f) : b[1] \in FrameSet(f, k) /\ FrameSet(f, k) \subseteq Rng(b)
  BY <1>2, <1>3 DEF Whole
<1>6. b[1] \in FrameSet(f, n)
  BY <1>4, FrameSetType
<1>7. k = n
  BY <1>5, <1>6, FrameUnique DEF FrameSet
<1>8. QED BY <1>2, <1>4, <1>5, <1>7 DEF b

(* A reader that has a header of whole frames has the frame. *)
LEMMA FrameReady ==
  ASSUME OrderInv, NEW f \in Flows, Whole(f, Rng(buf[f])), ~NeedsMore(f),
         NEW length \in LengthField(f, Synced(f, buf[f]))
  PROVE  ReadInFull(Synced(f, buf[f]), length)
<1> DEFINE b == Synced(f, buf[f])
<1>1. buf[f] \in Seq(1..Size(f))
  BY DEF OrderInv, BaseInv, TypeOK, ReaderType
<1>2. b \in Seq(1..Size(f)) /\ Len(b) \in Nat /\ Len(b) >= 2 /\ b # <<>> /\ DOMAIN b = 1..Len(b)
  <2>1. b \in Seq(1..Size(f))
    BY <1>1, SyncedType
  <2>2. ~(Len(b) < 2)
    BY DEF NeedsMore, HeaderLength
  <2> HIDE DEF b
  <2>3. QED BY <2>1, <2>2
<1>3. /\ Increasing(b)
      /\ \E n \in Frames(f) : b[1] = First(f, n) /\ FrameSet(f, n) \subseteq Rng(b)
  BY <1>2, WholeHead
<1>4. length \in LengthField(f, b)
  OBVIOUS
<1> SUFFICES length <= Len(b)
  BY DEF ReadInFull
<1> HIDE DEF b
<1>5. PICK n \in Frames(f) : b[1] = First(f, n) /\ FrameSet(f, n) \subseteq Rng(b)
  BY <1>3
<1>6. /\ First(f, n) \in Nat /\ Last(f, n) \in Nat /\ First(f, n) < Last(f, n)
      /\ Length(f, n) = Last(f, n) - First(f, n) + 1 /\ Last(f, n) \in FrameSet(f, n)
      /\ Size(f) \in Nat
  BY FrameEndsType, FrameSetType
<1>7. ASSUME NEW i \in 1..Len(b) - 1, b[i] \in First(f, n)..Last(f, n) - 1
      PROVE  b[i + 1] = b[i] + 1
  <2>1. b[i] + 1 \in First(f, n)..Last(f, n)
    <3>1. \A x, y \in Nat : \A c \in x..y - 1 : c + 1 \in x..y
      OBVIOUS
    <3>2. QED BY <1>6, <1>7, <3>1, Zenon
  <2>2. b[i] + 1 \in Rng(b)
    BY <1>5, <2>1 DEF FrameSet
  <2>3. QED BY <1>2, <1>3, <1>6, <2>2, NextCell
<1>8. LengthField(f, b) = {Length(f, n)}
  <2>1. 1 \in 1..Len(b) - 1 /\ b[1] \in First(f, n)..Last(f, n) - 1
    BY <1>2, <1>5, <1>6
  <2>2. b[1 + 1] = b[1] + 1
    BY <1>7, <2>1
  <2>3. b[2] = b[1] + 1
    BY <2>2
  <2>4. QED BY <1>5, <2>3, LengthRead
<1>9. Length(f, n) <= Len(b)
  <2> SUFFICES ASSUME Len(b) < Length(f, n) PROVE FALSE
    BY <1>2, <1>6
  <2>1. Len(b) <= Length(f, n)
    BY <1>2, <1>6
  <2>2. \A i \in 1..Len(b) : b[i] = First(f, n) + i - 1
    BY <1>2, <1>5, <1>7, <2>1, Consecutive
  <2>3. PICK m \in 1..Len(b) : b[m] = Last(f, n)
    BY <1>2, <1>5, <1>6 DEF Rng
  <2>4. QED BY <1>2, <1>6, <2>2, <2>3
<1>10. QED BY <1>4, <1>8, <1>9

(* One that waits for a header has nothing of whole frames. *)
LEMMA WholeShort ==
  ASSUME OrderInv, NEW f \in Flows, Whole(f, Rng(buf[f])), NeedsMore(f)
  PROVE  Rng(buf[f]) = {}
<1> DEFINE b == Synced(f, buf[f])
<1>1. buf[f] \in Seq(1..Size(f)) /\ Increasing(buf[f])
  BY DEF OrderInv, BaseInv, TypeOK, ReaderType, FlowInv
<1>2. Rng(b) = Rng(buf[f])
  BY <1>1, WholeKept
<1>3. b # <<>> => /\ b \in Seq(1..Size(f))
                  /\ \E n \in Frames(f) : b[1] = First(f, n) /\ FrameSet(f, n) \subseteq Rng(b)
  BY WholeHead
<1>4. Len(b) < 2
  BY DEF NeedsMore, HeaderLength
<1> HIDE DEF b
<1>5. ASSUME b # <<>> PROVE FALSE
  <2>1. PICK n \in Frames(f) : b[1] = First(f, n) /\ FrameSet(f, n) \subseteq Rng(b)
    BY <1>3, <1>5
  <2>2. DOMAIN b = 1..Len(b) /\ Len(b) \in Nat
    BY <1>3, <1>5
  <2>3. PICK m \in 1..Len(b) : b[m] = Last(f, n)
    BY <2>1, <2>2, FrameSetType DEF Rng
  <2>4. m = 1
    BY <1>4, <2>2
  <2>5. QED BY <2>1, <2>3, <2>4, FrameSetType
<1>6. QED BY <1>2, <1>5, RngEmpty

-----------------------------------------------------------------------------
Ended(f) ==
  /\ pc[f] = "dead" => link[f] = "closed"
  /\ pc[f] # "running" => NeedsMore(f)

LEMMA EndedNext ==
  ASSUME OrderInv, \A g \in Flows : Whole(g, Rng(buf[g])), \A g \in Flows : Ended(g), [Next]_vars
  PROVE  \A g \in Flows : Ended(g)'
<1>1. /\ DOMAIN pc = Flows /\ DOMAIN link = Flows /\ DOMAIN buf = Flows /\ flow \in Flows
  BY DEF OrderInv, BaseInv, TypeOK, ReaderType, CaptureType
<1>2. ASSUME UNCHANGED <<pc, link, buf>> PROVE \A g \in Flows : Ended(g)'
  BY <1>2 DEF Ended, NeedsMore
<1>3. ASSUME NEW f \in Flows, Receive(f) \/ ReceiveAhead(f) \/ ReceiveLate(f)
      PROVE  \A g \in Flows : Ended(g)'
  <2>1. New(f)
    BY <1>3 DEF Receive, ReceiveAhead, ReceiveLate
  <2>2. CASE UNCHANGED reader
    BY <1>2, <2>2 DEF reader
  <2>3. CASE /\ pc' = [pc EXCEPT ![f] = "running"]
             /\ link' = [link EXCEPT ![f] = "first"]
             /\ buf' = [buf EXCEPT ![f] = <<>>]
    <3>1. /\ pc'[f] = "running"
          /\ \A g \in Flows \ {f} : pc'[g] = pc[g] /\ link'[g] = link[g] /\ buf'[g] = buf[g]
      BY <1>1, <2>3
    <3>2. QED BY <3>1 DEF Ended, NeedsMore
  <2>4. QED BY <2>1, <2>2, <2>3 DEF New
<1>4. ASSUME NEW f \in Flows, Finish(f) \/ FlushConnection(f) \/ Tick(f)
      PROVE  \A g \in Flows : Ended(g)'
  <2>1. /\ UNCHANGED <<pc, buf>>
        /\ UNCHANGED link \/ link' = [link EXCEPT ![f] = "closed"]
    BY <1>4 DEF Finish, FlushConnection, Tick, reader
  <2>2. \A g \in Flows : link[g] = "closed" => link'[g] = "closed"
    BY <1>1, <2>1
  <2>3. QED BY <2>1, <2>2 DEF Ended, NeedsMore
<1>5. ASSUME NEW f \in Flows, TakeBatch(f) \/ AskMore(f) \/ Fill(f) \/ QueueFrame(f)
      PROVE  \A g \in Flows : Ended(g)'
  <2>1. /\ pc[f] = "running" /\ UNCHANGED pc
        /\ \A g \in Flows \ {f} : link'[g] = link[g] /\ buf'[g] = buf[g]
    BY <1>1, <1>5 DEF TakeBatch, AskMore, Starved, Fill, QueueFrame
  <2>2. QED BY <2>1 DEF Ended, NeedsMore
<1>6. ASSUME NEW f \in Flows, EndOfStream(f) PROVE \A g \in Flows : Ended(g)'
  <2>1. /\ link[f] = "closed" /\ NeedsMore(f) /\ UNCHANGED <<link, buf>>
        /\ \A g \in Flows \ {f} : pc'[g] = pc[g]
    BY <1>1, <1>6 DEF EndOfStream, Starved, Die
  <2>2. QED BY <2>1 DEF Ended, NeedsMore
<1>7. ASSUME NEW f \in Flows PROVE ~ShortRead(f)
  BY FrameReady DEF ShortRead
<1>8. ASSUME NEW f \in Flows, Delay(f) \/ EndEarlier(f) PROVE UNCHANGED <<pc, link, buf>>
  BY <1>8 DEF Delay, EndEarlier, reader
<1>9. CASE \/ Stop \/ SeeDone \/ Return \/ SeeEnd \/ Restart \/ NextFrame \/ ReadError
           \/ UNCHANGED vars
  BY <1>2, <1>9 DEF Stop, SeeDone, Return, SeeEnd, Restart, NextFrame, ReadError, vars, reader
<1>10. QED BY <1>2, <1>3, <1>4, <1>5, <1>6, <1>7, <1>8, <1>9 DEF Next, Start, Run

EndedInv == OrderedInv /\ \A f \in Flows : Ended(f)

LEMMA EndedInit == Init => EndedInv
<1> SUFFICES ASSUME Init PROVE EndedInv
  OBVIOUS
<1>1. \A f \in Flows : pc[f] = "none" /\ NeedsMore(f)
  BY SyncedEmpty, Zenon DEF Init, NeedsMore
<1>2. QED BY <1>1, OrderedInit DEF EndedInv, Ended

LEMMA EndedKept ==
  ASSUME Cut = "frames"
  PROVE  EndedInv /\ [Next]_vars => EndedInv'
<1> SUFFICES ASSUME EndedInv, [Next]_vars PROVE EndedInv'
  OBVIOUS
<1>1. OrderedInv'
  BY OrderedNext DEF EndedInv
<1>2. OrderInv /\ \A f \in Flows : Whole(f, Rng(buf[f]))
  BY DEF EndedInv, OrderedInv, LossInv, Aligned
<1>3. \A f \in Flows : Ended(f)'
  BY <1>2, EndedNext DEF EndedInv
<1>4. QED BY <1>1, <1>3 DEF EndedInv

(* Where segments end with frames, a reader ends (reassembler.go:59,66,81) *)
(* only when its connection has, and there is a whole frame behind every   *)
(* magic number it finds: no read is short (reassembler.go:73), so the     *)
(* capture goroutine never waits for a reader that is gone.                *)
THEOREM ReadersOutliveConnections ==
  ASSUME Cut = "frames"
  PROVE  Spec => []EndsWithConnection
<1>1. EndedInv => EndsWithConnection
  <2> SUFFICES ASSUME EndedInv, NEW f \in Flows
      PROVE  /\ pc[f] = "dead" => link[f] = "closed"
             /\ pc[f] = "running" /\ ~NeedsMore(f) =>
                  \A length \in LengthField(f, Synced(f, buf[f])) :
                    ReadInFull(Synced(f, buf[f]), length)
    BY Zenon DEF EndsWithConnection
  <2>1. OrderInv /\ Whole(f, Rng(buf[f])) /\ Ended(f)
    BY DEF EndedInv, OrderedInv, LossInv, Aligned
  <2>2. QED BY <2>1, FrameReady DEF Ended
<1>2. QED BY <1>1, EndedInit, EndedKept, PTL DEF Spec

-----------------------------------------------------------------------------
Reached(f) == \E k \in Accepted(f) : k # 0 /\ sent[f] <= Last(f, k)

NoDrop(f) ==
  /\ missing[f] = Nothing /\ sent[f] # 0 =>
       sent[f] \in Rng(buf[f]) \cup CellsIn(InHand(f)) \/ Reached(f)
  /\ missing[f] # Nothing /\ held[f] = <<>> => sent[f] < Size(f)

(* What follows a missing segment, and the segment, end with what was sent. *)
LEMMA LineEnds ==
  ASSUME LossInv, NEW f \in Flows
  PROVE  /\ held[f] # <<>> => sent[f] \in CellsIn(held[f])
         /\ Known(f) => sent[f] \in CellsOf(missing[f]) \cup CellsIn(held[f])
<1>1. /\ sent[f] \in Nat /\ held[f] \in Seq(Segments(f))
      /\ Known(f) => missing[f] \in Segments(f)
  BY DEF LossInv, OrderInv, BaseInv, TypeOK, NetworkType, Known
<1>2. PICK a \in 1..sent[f] + 1 :
        CellsIn(held[f]) = a..sent[f] /\ (Known(f) => a = missing[f].last + 1)
  BY DEF LossInv, LossFlow, Line
<1>3. CASE CellsIn(held[f]) # {}
  BY <1>1, <1>2, <1>3
<1>4. CASE CellsIn(held[f]) = {}
  <2>1. a = sent[f] + 1
    <3>1. \A m \in Nat : \A c \in 1..m + 1 : c # m + 1 => c \in c..m
      OBVIOUS
    <3>2. a \notin a..sent[f]
      BY <1>2, <1>4
    <3>3. QED BY <1>1, <3>1, <3>2
  <2>2. held[f] = <<>>
    <3> SUFFICES ASSUME held[f] # <<>> PROVE FALSE
      OBVIOUS
    <3>1. Head(held[f]) \in Segments(f) /\ CellsOf(Head(held[f])) = {}
      BY <1>1, <1>4, CellsInSplit
    <3>2. QED BY <3>1, SegmentType DEF CellsOf
  <2>3. ASSUME Known(f) PROVE sent[f] \in CellsOf(missing[f])
    <3>1. /\ missing[f].first \in Nat /\ missing[f].last \in Nat
          /\ missing[f].first <= missing[f].last
      BY <1>1, <2>3, SegmentType
    <3>2. missing[f].last = sent[f]
      BY <1>1, <1>2, <2>1, <2>3, <3>1
    <3>3. QED BY <3>1, <3>2 DEF CellsOf
  <2>4. QED BY <2>2, <2>3
<1>5. QED BY <1>3, <1>4

(* A flow that a step leaves as it is. *)
LEMMA NoDropSame ==
  ASSUME OrderInv, FramesOnly, NEW f \in Flows, NoDrop(f), InHand(f)' = InHand(f),
         sent'[f] = sent[f], held'[f] = held[f], buf'[f] = buf[f], missing'[f] = missing[f],
         Accepted(f)' \subseteq Accepted(f),
         \A m \in Accepted(f) \ Accepted(f)' : \E n \in Accepted(f)' : m < n
  PROVE  NoDrop(f)'
<1>1. ASSUME NEW m \in Accepted(f), m # 0, sent[f] <= Last(f, m) PROVE Reached(f)'
  <2>1. CASE m \in Accepted(f)'
    BY <1>1, <2>1 DEF Reached
  <2>2. CASE m \notin Accepted(f)'
    <3>1. PICK n \in Accepted(f)' : m < n
      BY <2>2
    <3>2. m \in Nat /\ n \in Nat /\ n \in Accepted(f)
      BY <3>1, AcceptedType
    <3>3. n # 0
      BY <1>1, <3>1, <3>2
    <3>4. m \in Frames(f) /\ n \in Frames(f)
      BY <1>1, <3>2, <3>3, AcceptedType
    <3>5. Last(f, m) < First(f, n)
      BY <3>1, <3>4, FrameOrder
    <3>6. Last(f, m) \in Nat /\ First(f, n) \in Nat /\ Last(f, n) \in Nat /\ First(f, n) < Last(f, n)
      BY <3>4, FrameSetType
    <3>7. sent[f] \in Nat
      BY DEF OrderInv, BaseInv, TypeOK, NetworkType
    <3>8. sent[f] <= Last(f, n)
      BY <1>1, <3>5, <3>6, <3>7
    <3>9. QED BY <3>1, <3>3, <3>8 DEF Reached
  <2>3. QED BY <2>1, <2>2
<1>2. Reached(f) => Reached(f)'
  BY <1>1 DEF Reached
<1>3. QED BY <1>2 DEF NoDrop

(* A flow whose bytes are handed to its reader up to what was sent. *)
LEMMA NoDropHanded ==
  ASSUME NEW f \in Flows, missing'[f] = Nothing, at' = "offer", flow' = f,
         sent'[f] \in CellsIn(batch')
  PROVE  NoDrop(f)'
BY DEF NoDrop, InHand

(* A step that touches one flow only, and none behind the assembler. *)
LEMMA NoDropElsewhere ==
  ASSUME OrderInv, FramesOnly, NEW f \in Flows, \A g \in Flows : NoDrop(g),
         UNCHANGED <<current, dataCh, got>>,
         at # "offer", UNCHANGED <<at, flow, batch>> \/ (at' = "offer" /\ flow' = f) \/ at' # "offer",
         \A g \in Flows \ {f} : /\ sent'[g] = sent[g] /\ missing'[g] = missing[g]
                                /\ held'[g] = held[g] /\ buf'[g] = buf[g]
  PROVE  \A g \in Flows \ {f} : NoDrop(g)'
<1> SUFFICES ASSUME NEW g \in Flows \ {f} PROVE NoDrop(g)'
  OBVIOUS
<1>1. Accepted(g)' = Accepted(g)
  BY DEF Accepted
<1>2. InHand(g)' = InHand(g)
  BY DEF InHand
<1>3. QED BY <1>1, <1>2, NoDropSame

LEMMA NoDropAssemble ==
  ASSUME LossInv, FramesOnly, NEW f \in Flows, \A g \in Flows : NoDrop(g),
         Receive(f) \/ ReceiveAhead(f) \/ ReceiveLate(f)
  PROVE  \A g \in Flows : NoDrop(g)'
<1>1. /\ OrderInv /\ BaseInv /\ TypeOK /\ NoDrop(f)
      /\ sent[f] \in Nat /\ DOMAIN sent = Flows /\ DOMAIN missing = Flows /\ DOMAIN held = Flows
      /\ held[f] \in Seq(Segments(f))
  BY DEF LossInv, OrderInv, BaseInv, TypeOK, NetworkType
<1>2. NewReader(f) /\ at = "select" /\ UNCHANGED <<dataCh, got>>
  BY <1>1, ReceiveKeeps, ReceiveAheadKeeps, ReceiveLateKeeps
     DEF Receive, ReceiveAhead, ReceiveLate, output
<1>3. /\ UNCHANGED current
      /\ \A g \in Flows \ {f} : buf'[g] = buf[g]
  BY <1>2 DEF NewReader
<1>4. /\ \/ at' = "offer" /\ flow' = f
         \/ UNCHANGED <<at, flow, batch>>
      /\ \A g \in Flows \ {f} : /\ sent'[g] = sent[g] /\ missing'[g] = missing[g]
                                /\ held'[g] = held[g]
  BY <1>1 DEF Receive, ReceiveAhead, ReceiveLate, Reassembled, GiveUp, capture
<1>5. \A g \in Flows \ {f} : NoDrop(g)'
  BY <1>1, <1>2, <1>3, <1>4, NoDropElsewhere
<1> SUFFICES NoDrop(f)'
  BY <1>5
<1>6. ASSUME NEW n \in Ends(f), sent[f] < n
      PROVE  /\ Segment(f, n) \in Segments(f) /\ n \in CellsOf(Segment(f, n))
  <2>1. /\ Segment(f, n) \in Segments(f) /\ n \in Nat
        /\ Segment(f, n).first = sent[f] + 1 /\ Segment(f, n).last = n
    BY <1>1, <1>6, NextSegment
  <2>2. QED BY <1>1, <1>6, <2>1 DEF CellsOf
<1>7. CASE Receive(f)
  <2>1. PICK n \in Ends(f) :
          /\ sent[f] < n /\ sent' = [sent EXCEPT ![f] = n] /\ missing[f] = Nothing
          /\ at' = "offer" /\ flow' = f /\ batch' = <<Segment(f, n)>>
          /\ UNCHANGED missing
    BY <1>7 DEF Receive, Reassembled
  <2>2. sent'[f] = n /\ n \in CellsIn(batch')
    BY <1>1, <1>6, <2>1, CellsInOne
  <2>3. QED BY <2>1, <2>2, NoDropHanded
<1>8. CASE ReceiveLate(f)
  <2>1. /\ Known(f) /\ at' = "offer" /\ flow' = f /\ batch' = <<missing[f]>> \o held[f]
        /\ missing'[f] = Nothing /\ sent'[f] = sent[f]
    BY <1>1, <1>8 DEF ReceiveLate, Reassembled, Known
  <2>2. missing[f] \in Segments(f)
    BY <1>1, <2>1, WasToCome
  <2>3. CellsIn(batch') = CellsOf(missing[f]) \cup CellsIn(held[f])
    BY <1>1, <2>1, <2>2, CellsInCons
  <2>4. sent'[f] \in CellsIn(batch')
    BY <2>1, <2>3, LineEnds
  <2>5. QED BY <2>1, <2>4, NoDropHanded
<1>9. CASE ReceiveAhead(f)
  <2>1. PICK n \in Ends(f) :
          /\ sent[f] < n /\ sent' = [sent EXCEPT ![f] = n] /\ missing[f] # Nothing
          /\ \/ /\ held' = [held EXCEPT ![f] = Append(held[f], Segment(f, n))]
                /\ UNCHANGED <<missing, lost, capture>>
             \/ GiveUp(f) /\ Reassembled(f, Append(held[f], Segment(f, n)))
    BY <1>9 DEF ReceiveAhead
  <2>2. Segment(f, n) \in Segments(f) /\ n \in CellsOf(Segment(f, n)) /\ sent'[f] = n
    BY <1>1, <1>6, <2>1
  <2>3. CASE GiveUp(f) /\ Reassembled(f, Append(held[f], Segment(f, n)))
    <3>1. /\ at' = "offer" /\ flow' = f /\ batch' = Append(held[f], Segment(f, n))
          /\ missing'[f] = Nothing
      BY <1>1, <2>3 DEF GiveUp, Reassembled
    <3>2. sent'[f] \in CellsIn(batch')
      BY <1>1, <2>2, <3>1, CellsInAppend
    <3>3. QED BY <3>1, <3>2, NoDropHanded
  <2>4. CASE /\ held' = [held EXCEPT ![f] = Append(held[f], Segment(f, n))]
             /\ UNCHANGED <<missing, lost, capture>>
    <3>1. held'[f] = Append(held[f], Segment(f, n)) /\ missing'[f] # Nothing
      BY <1>1, <2>1, <2>4
    <3>2. held'[f] # <<>>
      BY <1>1, <2>2, <3>1, AppendProperties
    <3>3. QED BY <3>1, <3>2 DEF NoDrop
  <2>5. QED BY <2>1, <2>3, <2>4
<1>10. QED BY <1>7, <1>8, <1>9

(* Tick and FlushAll hand over what is held, or FlushAll closes the link. *)
LEMMA NoDropHandHeld ==
  ASSUME LossInv, FramesOnly, NEW f \in Flows, \A g \in Flows : NoDrop(g),
         Tick(f) \/ FlushConnection(f)
  PROVE  \A g \in Flows : NoDrop(g)'
<1>1. /\ OrderInv /\ TypeOK /\ NoDrop(f)
      /\ DOMAIN missing = Flows /\ DOMAIN held = Flows
      /\ sent[f] \in Nat /\ sent[f] <= Size(f) /\ Size(f) \in Nat
  BY FrameEndsType DEF LossInv, OrderInv, BaseInv, TypeOK, NetworkType
<1>2. at # "offer" /\ UNCHANGED <<sent, current, buf, dataCh, got>>
  BY DEF Tick, FlushConnection, reader, output
<1>3. CASE held[f] # <<>> /\ GiveUp(f) /\ Reassembled(f, held[f])
  <2>1. /\ at' = "offer" /\ flow' = f /\ batch' = held[f] /\ missing'[f] = Nothing
        /\ \A g \in Flows \ {f} : missing'[g] = missing[g] /\ held'[g] = held[g]
    BY <1>1, <1>3 DEF GiveUp, Reassembled
  <2>2. sent'[f] \in CellsIn(batch')
    BY <1>2, <1>3, <2>1, LineEnds
  <2>3. NoDrop(f)'
    BY <2>1, <2>2, NoDropHanded
  <2>4. \A g \in Flows \ {f} : NoDrop(g)'
    BY <1>1, <1>2, <2>1, NoDropElsewhere
  <2>5. QED BY <2>3, <2>4
<1>4. CASE /\ missing' = [missing EXCEPT ![f] = IF sent[f] < Size(f) THEN Unknown ELSE Nothing]
           /\ held[f] = <<>> /\ UNCHANGED <<held, capture>>
  <2>1. /\ UNCHANGED <<held, at, flow, batch>>
        /\ sent[f] < Size(f) => missing'[f] = Unknown
        /\ ~(sent[f] < Size(f)) => missing'[f] = Nothing
        /\ \A g \in Flows \ {f} : missing'[g] = missing[g]
    BY <1>1, <1>4 DEF capture
  <2>2. InHand(f)' = InHand(f) /\ Accepted(f)' = Accepted(f)
    BY <1>2, <2>1 DEF InHand, Accepted
  <2>3. Reached(f)' = Reached(f)
    BY <1>2, <2>2 DEF Reached
  <2>4. NoDrop(f)'
    <3>1. CASE sent[f] < Size(f)
      BY <1>2, <2>1, <3>1, Distinct DEF NoDrop
    <3>2. CASE ~(sent[f] < Size(f))
      <4>1. missing[f] = Nothing
        BY <1>1, <1>4, <3>2 DEF NoDrop
      <4>2. QED BY <1>1, <1>2, <2>1, <2>2, <2>3, <3>2, <4>1 DEF NoDrop
    <3>3. QED BY <3>1, <3>2
  <2>5. \A g \in Flows \ {f} : NoDrop(g)'
    BY <1>1, <1>2, <2>1, NoDropElsewhere
  <2>6. QED BY <2>4, <2>5
<1>5. QED BY <1>3, <1>4 DEF Tick, FlushConnection

(* The network delays a segment, but not the last. *)
LEMMA NoDropDelay ==
  ASSUME OrderInv, FramesOnly, NEW f \in Flows, \A g \in Flows : NoDrop(g), Delay(f)
  PROVE  \A g \in Flows : NoDrop(g)'
<1>1. /\ DOMAIN missing = Flows /\ DOMAIN sent = Flows /\ sent[f] \in Nat
  BY DEF OrderInv, BaseInv, TypeOK, NetworkType
<1>2. PICK n \in Ends(f) :
        /\ sent[f] < n /\ n < Size(f)
        /\ missing' = [missing EXCEPT ![f] = Segment(f, n)]
        /\ sent' = [sent EXCEPT ![f] = n]
        /\ UNCHANGED <<held, at, flow, batch, current, buf, dataCh, got>>
  BY DEF Delay, capture, reader, output
<1>3. missing'[f] # Nothing /\ sent'[f] < Size(f)
  <2>1. Segment(f, n) \in Segments(f)
    BY <1>1, <1>2, NextSegment
  <2>2. QED BY <1>1, <1>2, <2>1, NoSegment
<1>4. NoDrop(f)'
  BY <1>3 DEF NoDrop
<1>5. ASSUME NEW g \in Flows \ {f} PROVE NoDrop(g)'
  <2>1. InHand(g)' = InHand(g) /\ Accepted(g)' = Accepted(g)
    BY <1>2 DEF InHand, Accepted
  <2>2. QED BY <1>1, <1>2, <2>1, NoDropSame
<1>6. QED BY <1>4, <1>5

LEMMA NoDropFill ==
  ASSUME OrderInv, FramesOnly, NEW f \in Flows, Whole(f, Rng(buf[f])),
         \A g \in Flows : NoDrop(g), Fill(f)
  PROVE  \A g \in Flows : NoDrop(g)'
<1>1. /\ PendingInv /\ NoDrop(f) /\ Increasing(buf[f])
      /\ DOMAIN buf = Flows /\ DOMAIN current = Flows /\ Size(f) \in Nat
      /\ buf[f] \in Seq(1..Size(f)) /\ current[f] \in Seq(Segments(f))
  BY FrameEndsType DEF OrderInv, BaseInv, TypeOK, ReaderType, FlowInv
<1> DEFINE b == Synced(f, buf[f])
           s == Head(current[f])
           q == Tail(current[f])
<1>2. /\ current[f] # <<>> /\ buf'[f] = b \o Cells(s) /\ current'[f] = q
      /\ \A g \in Flows \ {f} : buf'[g] = buf[g] /\ current'[g] = current[g]
      /\ UNCHANGED <<sent, missing, held, at, flow, batch, dataCh, got>>
  BY <1>1 DEF Fill, network, capture, output
<1>3. at = "await"
  BY <1>1, <1>2 DEF PendingInv, Synchronous, Consuming, Settled
<1>4. InHand(f) = current[f] /\ InHand(f)' = q /\ \A g \in Flows \ {f} : InHand(g)' = InHand(g)
  BY <1>2, <1>3 DEF InHand
<1>5. s \in Segments(f) /\ CellsIn(current[f]) = CellsOf(s) \cup CellsIn(q)
  BY <1>1, <1>2, CellsInSplit
<1>6. b \in Seq(1..Size(f)) /\ Rng(b) = Rng(buf[f])
  BY <1>1, SyncedType, WholeKept
<1>7. Cells(s) \in Seq(1..Size(f)) /\ Rng(Cells(s)) = CellsOf(s)
  BY <1>5, CellsType, CellsIncrease
<1>8. \A g \in Flows : Accepted(g)' = Accepted(g)
  BY <1>2 DEF Accepted
<1> HIDE DEF b, s, q
<1>9. Rng(buf'[f]) \cup CellsIn(q) = Rng(buf[f]) \cup CellsIn(current[f])
  <2>1. Rng(buf'[f]) = Rng(b) \cup Rng(Cells(s))
    BY <1>1, <1>2, <1>6, <1>7, RngConcat
  <2>2. QED BY <1>5, <1>6, <1>7, <2>1
<1>10. Reached(f)' = Reached(f)
  BY <1>2, <1>8 DEF Reached
<1>11. NoDrop(f)'
  BY <1>1, <1>2, <1>4, <1>9, <1>10 DEF NoDrop
<1>12. QED BY <1>2, <1>4, <1>8, <1>11, NoDropSame

(* The last cell sent ends the frame that is queued, or stays behind it. *)
LEMMA NoDropQueueFrame ==
  ASSUME LossInv, FramesOnly, NEW f \in Flows, Aligned(f), \A g \in Flows : NoDrop(g),
         QueueFrame(f)
  PROVE  \A g \in Flows : NoDrop(g)'
<1>1. /\ OrderInv /\ TypeOK /\ NoDrop(f) /\ Increasing(buf[f]) /\ Whole(f, Rng(buf[f]))
      /\ buf[f] \in Seq(1..Size(f)) /\ sent[f] \in Nat
  BY DEF LossInv, OrderInv, BaseInv, TypeOK, ReaderType, NetworkType, FlowInv, Aligned
<1> DEFINE b == Synced(f, buf[f])
           H == CellsIn(InHand(f))
<1>2. PICK n \in Frames(f) :
        /\ dataCh' = Append(dataCh, [flow |-> f, body |-> FrameCells(f, n)])
        /\ \A g \in Flows \ {f} : buf'[g] = buf[g]
        /\ Rng(buf'[f]) = {c \in Rng(b) : Last(f, n) < c}
  BY <1>1, PacketIsFrame
<1>3. Rng(b) = Rng(buf[f])
  BY <1>1, WholeKept
<1>4. UNCHANGED <<sent, missing, held, at, flow, batch, current, got>>
  BY DEF QueueFrame, network, capture
<1>5. \A g \in Flows : InHand(g)' = InHand(g)
  BY <1>4 DEF InHand
<1>6. Accepted(f)' = Accepted(f) \cup {n} /\ \A g \in Flows \ {f} : Accepted(g)' = Accepted(g)
  BY <1>1, <1>2, <1>4, AcceptedGrows
<1> HIDE DEF b, H
<1>7. ASSUME NEW g \in Flows \ {f} PROVE NoDrop(g)'
  BY <1>1, <1>2, <1>4, <1>5, <1>6, NoDropSame
<1>8. n # 0 /\ Last(f, n) \in Nat
  BY FrameEndsType
<1>9. sent[f] <= Last(f, n) => Reached(f)'
  BY <1>4, <1>6, <1>8 DEF Reached
<1>10. Reached(f) => Reached(f)'
  BY <1>4, <1>6 DEF Reached
<1>11. sent[f] \in Rng(buf[f]) /\ ~(sent[f] <= Last(f, n)) => sent[f] \in Rng(buf'[f])
  BY <1>1, <1>2, <1>3, <1>8
<1>12. NoDrop(f)'
  BY <1>1, <1>4, <1>5, <1>9, <1>10, <1>11 DEF NoDrop
<1>13. QED BY <1>7, <1>12

LEMMA NoDropNext ==
  ASSUME LossInv, FramesOnly, \A g \in Flows : Aligned(g), \A g \in Flows : NoDrop(g), [Next]_vars
  PROVE  \A g \in Flows : NoDrop(g)'
<1>1. OrderInv /\ TypeOK /\ flow \in Flows
  BY DEF LossInv, OrderInv, BaseInv, TypeOK, CaptureType
<1>2. ASSUME NEW f \in Flows, Receive(f) \/ ReceiveAhead(f) \/ ReceiveLate(f)
      PROVE  \A g \in Flows : NoDrop(g)'
  BY <1>2, NoDropAssemble
<1>3. ASSUME NEW f \in Flows, Tick(f) \/ FlushConnection(f) PROVE \A g \in Flows : NoDrop(g)'
  BY <1>3, NoDropHandHeld
<1>4. ASSUME NEW f \in Flows, Delay(f) PROVE \A g \in Flows : NoDrop(g)'
  BY <1>1, <1>4, NoDropDelay
<1>5. ASSUME NEW f \in Flows, Fill(f) PROVE \A g \in Flows : NoDrop(g)'
  BY <1>1, <1>5, NoDropFill DEF Aligned
<1>6. ASSUME NEW f \in Flows, QueueFrame(f) PROVE \A g \in Flows : NoDrop(g)'
  BY <1>6, NoDropQueueFrame
<1>7. ASSUME NEW f \in Flows, Quiet(f) PROVE \A g \in Flows : NoDrop(g)'
  <2> TAKE g \in Flows
  <2>1. /\ UNCHANGED <<sent, missing, held, buf>> /\ InHand(g)' = InHand(g)
        /\ NextFrame \/ UNCHANGED <<dataCh, got>>
    BY <1>1, <1>7, QuietSame
  <2>2. /\ Accepted(g)' \subseteq Accepted(g)
        /\ \A m \in Accepted(g) \ Accepted(g)' : \E n \in Accepted(g)' : m < n
    <3>1. CASE NextFrame
      BY <1>1, <3>1, AcceptedReturns
    <3>2. CASE UNCHANGED <<dataCh, got>>
      BY <3>2 DEF Accepted
    <3>3. QED BY <2>1, <3>1, <3>2
  <2>3. QED BY <1>1, <2>1, <2>2, NoDropSame
<1>8. QED BY <1>1, <1>2, <1>3, <1>4, <1>5, <1>6, <1>7 DEF Next, Start, Run, Quiet

(* No frame is accepted beyond what was sent. *)
LEMMA AcceptedSent ==
  ASSUME OrderInv, FramesOnly, NEW f \in Flows, Aligned(f), NEW k \in Accepted(f), k # 0
  PROVE  k \in Frames(f) /\ Last(f, k) <= sent[f]
<1>1. /\ FlowInv(f) /\ sent[f] \in Nat /\ sent[f] <= Size(f) /\ Size(f) \in Nat
  BY FrameEndsType DEF OrderInv, BaseInv, TypeOK, NetworkType
<1>2. k \in Frames(f) /\ First(f, k) \in Queued(f)
  BY AcceptedType
<1>3. First(f, k) \in 1..Size(f) /\ Last(f, k) \in 1..Size(f) /\ First(f, k) < Last(f, k)
  BY <1>2, FrameInSize, FrameSetType
<1>4. First(f, k) <= sent[f]
  <2> SUFFICES ASSUME sent[f] < First(f, k) PROVE FALSE
    BY <1>1, <1>3
  <2>1. First(f, k) \in ToCome(f)
    BY <1>3 DEF ToCome
  <2>2. First(f, k) < First(f, k)
    BY <1>1, <1>2, <2>1 DEF FlowInv, InChain, Chain, AllBelow
  <2>3. QED BY <1>3, <2>2
<1>5. PICK j \in Frames(f) : sent[f] = Last(f, j)
  BY <1>1, <1>3, <1>4 DEF Aligned, Lasts
<1>6. j \in Nat /\ k \in Nat
  BY <1>2, FrameEndsType
<1>7. CASE j < k
  BY <1>1, <1>2, <1>3, <1>4, <1>5, <1>7, FrameOrder
<1>8. CASE k < j
  <2>1. Last(f, k) < First(f, j)
    BY <1>2, <1>8, FrameOrder
  <2>2. First(f, j) \in Nat /\ First(f, j) < Last(f, j)
    BY FrameSetType
  <2>3. QED BY <1>1, <1>2, <1>3, <1>5, <2>1, <2>2
<1>9. CASE j = k
  BY <1>1, <1>2, <1>5, <1>9
<1>10. QED BY <1>6, <1>7, <1>8, <1>9

HandedInv == EndedInv /\ \A f \in Flows : NoDrop(f)

LEMMA HandedInit == Init => HandedInv
<1> SUFFICES ASSUME Init PROVE HandedInv
  OBVIOUS
<1>1. ASSUME NEW f \in Flows PROVE NoDrop(f)
  <2>1. sent[f] = 0
    BY DEF Init
  <2>2. Len(FrameEnds[f]) \in Frames(f) /\ Size(f) = Last(f, Len(FrameEnds[f]))
    BY FrameEndsType DEF Size
  <2>3. Size(f) \in Nat \ {0}
    BY <2>2, FrameInSize, FrameEndsType
  <2>4. QED BY <2>1, <2>3 DEF NoDrop
<1>2. QED BY <1>1, EndedInit DEF HandedInv

LEMMA HandedNext ==
  ASSUME Cut = "frames"
  PROVE  HandedInv /\ [Next]_vars => HandedInv'
<1> SUFFICES ASSUME HandedInv, [Next]_vars PROVE HandedInv'
  OBVIOUS
<1>1. LossInv /\ FramesOnly /\ \A f \in Flows : Aligned(f)
  BY DEF HandedInv, EndedInv, OrderedInv
<1>2. \A f \in Flows : NoDrop(f)'
  BY <1>1, NoDropNext DEF HandedInv
<1>3. EndedInv'
  BY EndedKept DEF HandedInv
<1>4. QED BY <1>2, <1>3 DEF HandedInv

(* Where segments end with frames, the assembler and run drop nothing:     *)
(* outside of a call into the assembler (sniffer.go:189,207,210), unless a *)
(* segment is missing, the last frame that the network has taken is in     *)
(* dataCh (reassembler.go:84) or was returned.                             *)
THEOREM NothingDropped ==
  ASSUME Cut = "frames"
  PROVE  Spec => []HandedOn
<1>1. HandedInv => HandedOn
  <2> SUFFICES ASSUME HandedInv, at \notin {"offer", "await"}, NEW f \in Flows,
                      missing[f] = Nothing, sent[f] # 0
      PROVE  \E k \in Ordered!Accepted(f) \cap Frames(f) : Last(f, k) = sent[f]
    BY Zenon DEF HandedOn
  <2>1. /\ OrderInv /\ PendingInv /\ TypeOK /\ FramesOnly /\ Aligned(f) /\ NoDrop(f) /\ Ended(f)
        /\ sent[f] \in Nat
    BY DEF HandedInv, EndedInv, OrderedInv, LossInv, OrderInv, BaseInv, TypeOK, NetworkType
  <2>2. current[f] = <<>> /\ NeedsMore(f)
    BY <2>1 DEF PendingInv, Synchronous, Consuming, Settled, Ended
  <2>3. Rng(buf[f]) = {}
    BY <2>1, <2>2, WholeShort DEF Aligned
  <2>4. CellsIn(InHand(f)) = {}
    BY <2>2, RngEmpty DEF InHand
  <2>5. PICK k \in Accepted(f) : k # 0 /\ sent[f] <= Last(f, k)
    BY <2>1, <2>3, <2>4 DEF NoDrop, Reached
  <2>6. k \in Frames(f) /\ Last(f, k) <= sent[f]
    BY <2>1, <2>5, AcceptedSent
  <2>7. Last(f, k) \in Nat
    BY <2>6, FrameEndsType
  <2>8. Last(f, k) = sent[f]
    BY <2>1, <2>5, <2>6, <2>7
  <2>9. Ordered!Accepted(f) = Accepted(f)
    BY <2>1, SameAccepted
  <2>10. QED BY <2>5, <2>6, <2>8, <2>9
<1>2. QED BY <1>1, HandedInit, HandedNext, PTL DEF Spec

=============================================================================
