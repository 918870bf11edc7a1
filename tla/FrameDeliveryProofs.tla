------------------------- MODULE FrameDeliveryProofs -------------------------
(***************************************************************************)
(* What FrameStream delivers, for any flows and frames, any cut into       *)
(* segments, any loss and any number of Starts: the bytes queued for       *)
(* NextFrame are in the order of the flow (QueuedInOrder), and each        *)
(* segment given up damages at most one packet (LossIsRepaired).           *)
(***************************************************************************)
EXTENDS FrameStreamProofs, FiniteSets, FiniteSetTheorems

-----------------------------------------------------------------------------
(* Cells in a sequence and in a sequence of segments. *)

Rng(s) == {s[i] : i \in DOMAIN s}
CellsOf(s) == s.first..s.last
CellsIn(q) == {c \in Nat : \E i \in DOMAIN q : c \in CellsOf(q[i])}

(* Each segment ends before the later ones begin. *)
Apart(q) == \A j \in DOMAIN q : \A i \in 1..j - 1 : q[i].last < q[j].first

AllBelow(S, T) == \A a \in S : \A b \in T : a < b

LEMMA RngType ==
  ASSUME NEW n \in Nat, NEW b \in Seq(1..n)
  PROVE  Rng(b) \subseteq 1..n /\ (b # <<>> => b[1] \in Rng(b))
<1>1. DOMAIN b = 1..Len(b) /\ Len(b) \in Nat /\ \A i \in 1..Len(b) : b[i] \in 1..n
  OBVIOUS
<1>2. b # <<>> => 1 \in 1..Len(b)
  BY <1>1
<1>3. QED BY <1>1, <1>2 DEF Rng

LEMMA RngEmpty == Rng(<<>>) = {} /\ CellsIn(<<>>) = {} /\ Apart(<<>>) /\ Increasing(<<>>)
BY DEF Rng, CellsIn, Apart, Increasing

LEMMA RngConcat ==
  ASSUME NEW n \in Nat, NEW b \in Seq(1..n), NEW c \in Seq(1..n)
  PROVE  Rng(b \o c) = Rng(b) \cup Rng(c)
<1>1. /\ Len(b) \in Nat /\ Len(c) \in Nat /\ b \o c \in Seq(1..n)
      /\ Len(b \o c) = Len(b) + Len(c)
      /\ \A i \in 1..Len(b) + Len(c) : (b \o c)[i] = IF i <= Len(b) THEN b[i] ELSE c[i - Len(b)]
  BY ConcatProperties
<1> DEFINE bc == b \o c
<1>2. /\ DOMAIN bc = 1..Len(b) + Len(c) /\ DOMAIN b = 1..Len(b) /\ DOMAIN c = 1..Len(c)
  BY <1>1
<1> HIDE DEF bc
<1>3. ASSUME NEW i \in 1..Len(b) + Len(c) PROVE bc[i] \in Rng(b) \cup Rng(c)
  <2>1. CASE i <= Len(b)
    <3>1. i \in 1..Len(b) /\ bc[i] = b[i]
      BY <1>1, <2>1 DEF bc
    <3>2. QED BY <1>2, <3>1 DEF Rng
  <2>2. CASE ~(i <= Len(b))
    <3>1. i - Len(b) \in 1..Len(c) /\ bc[i] = c[i - Len(b)]
      BY <1>1, <2>2 DEF bc
    <3>2. QED BY <1>2, <3>1 DEF Rng
  <2>3. QED BY <2>1, <2>2
<1>4. ASSUME NEW i \in 1..Len(b) PROVE b[i] \in Rng(bc)
  <2>1. i \in 1..Len(b) + Len(c) /\ i <= Len(b) /\ bc[i] = b[i]
    BY <1>1 DEF bc
  <2>2. QED BY <1>2, <2>1 DEF Rng
<1>5. ASSUME NEW i \in 1..Len(c) PROVE c[i] \in Rng(bc)
  <2>1. /\ Len(b) + i \in 1..Len(b) + Len(c) /\ ~(Len(b) + i <= Len(b))
        /\ Len(b) + i - Len(b) = i
    BY <1>1
  <2>2. bc[Len(b) + i] = c[i]
    BY <1>1, <2>1 DEF bc
  <2>3. QED BY <1>2, <2>1, <2>2 DEF Rng
<1>6. Rng(bc) \subseteq Rng(b) \cup Rng(c)
  BY <1>2, <1>3 DEF Rng
<1>7. Rng(b) \subseteq Rng(bc) /\ Rng(c) \subseteq Rng(bc)
  BY <1>2, <1>4, <1>5 DEF Rng
<1>8. QED BY <1>6, <1>7 DEF bc

LEMMA IncreasingConcat ==
  ASSUME NEW n \in Nat, NEW b \in Seq(1..n), NEW c \in Seq(1..n),
         Increasing(b), Increasing(c), AllBelow(Rng(b), Rng(c))
  PROVE  Increasing(b \o c)
<1> DEFINE bc == b \o c
<1>1. /\ Len(b) \in Nat /\ Len(c) \in Nat
      /\ DOMAIN b = 1..Len(b) /\ DOMAIN c = 1..Len(c) /\ DOMAIN bc = 1..Len(b) + Len(c)
      /\ \A i \in 1..Len(b) + Len(c) : bc[i] = IF i <= Len(b) THEN b[i] ELSE c[i - Len(b)]
  BY ConcatProperties
<1> HIDE DEF bc
<1> SUFFICES ASSUME NEW j \in 1..Len(b) + Len(c), NEW i \in 1..j - 1 PROVE bc[i] < bc[j]
  BY <1>1 DEF Increasing, bc
<1>2. i \in 1..Len(b) + Len(c) /\ i < j
  <2>1. \A l \in Nat : j \in 1..l => i \in 1..l /\ i < j
    OBVIOUS
  <2>2. Len(b) + Len(c) \in Nat
    BY <1>1
  <2>3. QED BY <2>1, <2>2
<1>3. CASE j <= Len(b)
  <2>1. j \in 1..Len(b) /\ i <= Len(b) /\ bc[j] = b[j] /\ bc[i] = b[i]
    BY <1>1, <1>2, <1>3
  <2>2. QED BY <1>1, <2>1 DEF Increasing
<1>4. CASE i <= Len(b) /\ ~(j <= Len(b))
  <2>1. i \in 1..Len(b) /\ j - Len(b) \in 1..Len(c) /\ bc[j] = c[j - Len(b)] /\ bc[i] = b[i]
    BY <1>1, <1>2, <1>4
  <2>2. b[i] \in Rng(b) /\ c[j - Len(b)] \in Rng(c)
    BY <1>1, <2>1 DEF Rng
  <2>3. QED BY <2>1, <2>2 DEF AllBelow
<1>5. CASE ~(i <= Len(b))
  <2>1. /\ j - Len(b) \in 1..Len(c) /\ i - Len(b) \in 1..(j - Len(b)) - 1 /\ ~(j <= Len(b))
    <3>1. \A l, k \in Nat : j \in 1..l + k /\ i \in 1..l + k /\ i < j /\ ~(i <= l) =>
            j - l \in 1..k /\ i - l \in 1..(j - l) - 1 /\ ~(j <= l)
      OBVIOUS
    <3>2. QED BY <1>1, <1>2, <1>5, <3>1
  <2>2. bc[j] = c[j - Len(b)] /\ bc[i] = c[i - Len(b)]
    BY <1>1, <1>2, <1>5, <2>1
  <2>3. QED BY <1>1, <2>1, <2>2 DEF Increasing
<1>6. QED BY <1>3, <1>4, <1>5

(* The cells of a segment are increasing. *)
LEMMA CellsIncrease ==
  ASSUME NEW f \in Flows, NEW s \in Segments(f)
  PROVE  Increasing(Cells(s)) /\ Rng(Cells(s)) = CellsOf(s)
<1>1. /\ s.first \in Nat /\ s.last \in Nat /\ s.first <= s.last
      /\ Len(Cells(s)) = s.last - s.first + 1
      /\ DOMAIN Cells(s) = 1..Len(Cells(s))
      /\ \A i \in 1..Len(Cells(s)) : Cells(s)[i] = s.first + i - 1
  BY CellsType, FrameEndsType
<1>2. Increasing(Cells(s))
  <2> SUFFICES ASSUME NEW j \in 1..Len(Cells(s)), NEW i \in 1..j - 1
      PROVE  Cells(s)[i] < Cells(s)[j]
    BY <1>1 DEF Increasing
  <2>1. i \in 1..Len(Cells(s)) /\ i < j
    BY <1>1
  <2>2. QED BY <1>1, <2>1
<1>3. Rng(Cells(s)) \subseteq CellsOf(s)
  BY <1>1 DEF Rng, CellsOf
<1>4. ASSUME NEW c \in CellsOf(s) PROVE c \in Rng(Cells(s))
  <2>1. c - s.first + 1 \in 1..Len(Cells(s)) /\ s.first + (c - s.first + 1) - 1 = c
    BY <1>1 DEF CellsOf
  <2>2. Cells(s)[c - s.first + 1] = c
    BY <1>1, <2>1
  <2>3. QED BY <1>1, <2>1, <2>2 DEF Rng
<1>5. QED BY <1>2, <1>3, <1>4

(* A sequence in two parts, the first of m elements. *)
Parts(b, m, p, q) ==
  /\ m \in 0..Len(b)
  /\ Len(p) = m /\ \A i \in 1..m : p[i] = b[i]
  /\ Len(q) = Len(b) - m /\ \A i \in 1..Len(b) - m : q[i] = b[m + i]

(* An increasing sequence is split by any of its places. *)
LEMMA IncreasingSplit ==
  ASSUME NEW n \in Nat, NEW b \in Seq(1..n), NEW p \in Seq(1..n), NEW q \in Seq(1..n),
         NEW m, Parts(b, m, p, q), Increasing(b)
  PROVE  /\ Increasing(p) /\ Increasing(q)
         /\ Rng(b) = Rng(p) \cup Rng(q) /\ AllBelow(Rng(p), Rng(q))
<1>0. /\ m \in 0..Len(b) /\ Len(b) \in Nat
      /\ Len(p) = m /\ \A i \in 1..m : p[i] = b[i]
      /\ Len(q) = Len(b) - m /\ \A i \in 1..Len(b) - m : q[i] = b[m + i]
  <2>1. Len(b) \in Nat
    BY LenProperties
  <2>2. QED BY <2>1, Zenon DEF Parts
<1>1. /\ Len(b) \in Nat /\ m \in Nat /\ m <= Len(b)
      /\ DOMAIN b = 1..Len(b) /\ DOMAIN p = 1..m /\ DOMAIN q = 1..Len(b) - m
  BY <1>0
<1>2. ASSUME NEW i \in 1..Len(b) - m PROVE m + i \in 1..Len(b)
  BY <1>1
<1>3. \A j \in 1..Len(b) : \A i \in 1..j - 1 : b[i] < b[j]
  BY <1>1 DEF Increasing
<1>4. Increasing(p)
  <2> SUFFICES ASSUME NEW j \in 1..m, NEW i \in 1..j - 1 PROVE p[i] < p[j]
    BY <1>1 DEF Increasing
  <2>1. j \in 1..Len(b) /\ i \in 1..m
    BY <1>1
  <2>2. QED BY <1>0, <1>3, <2>1
<1>5. Increasing(q)
  <2> SUFFICES ASSUME NEW j \in 1..Len(b) - m, NEW i \in 1..j - 1 PROVE q[i] < q[j]
    BY <1>1 DEF Increasing
  <2>1. m + j \in 1..Len(b) /\ i \in 1..Len(b) - m /\ m + i \in 1..(m + j) - 1
    BY <1>1
  <2>2. b[m + i] < b[m + j]
    BY <1>3, <2>1
  <2>3. QED BY <1>0, <2>1, <2>2
<1>6. AllBelow(Rng(p), Rng(q))
  <2> SUFFICES ASSUME NEW i \in 1..m, NEW j \in 1..Len(b) - m PROVE p[i] < q[j]
    BY <1>1 DEF AllBelow, Rng
  <2>1. m + j \in 1..Len(b) /\ i \in 1..(m + j) - 1
    BY <1>1
  <2>2. QED BY <1>0, <1>3, <2>1
<1>7. Rng(p) \subseteq Rng(b) /\ Rng(q) \subseteq Rng(b)
  <2>1. ASSUME NEW i \in 1..m PROVE p[i] \in Rng(b)
    <3>1. i \in 1..Len(b) /\ p[i] = b[i]
      BY <1>0, <1>1
    <3>2. QED BY <1>1, <3>1 DEF Rng
  <2>2. ASSUME NEW i \in 1..Len(b) - m PROVE q[i] \in Rng(b)
    BY <1>0, <1>1, <1>2 DEF Rng
  <2>3. QED BY <1>1, <2>1, <2>2 DEF Rng
<1>8. ASSUME NEW i \in 1..Len(b) PROVE b[i] \in Rng(p) \cup Rng(q)
  <2>1. CASE i <= m
    <3>1. i \in 1..m /\ p[i] = b[i]
      BY <1>0, <1>1, <2>1
    <3>2. QED BY <1>1, <3>1 DEF Rng
  <2>2. CASE ~(i <= m)
    <3>1. i - m \in 1..Len(b) - m /\ m + (i - m) = i
      BY <1>1, <2>2
    <3>2. q[i - m] = b[i]
      BY <1>0, <3>1
    <3>3. QED BY <1>1, <3>1, <3>2 DEF Rng
  <2>3. QED BY <2>1, <2>2
<1>9. Rng(b) \subseteq Rng(p) \cup Rng(q)
  BY <1>1, <1>8 DEF Rng
<1>10. QED BY <1>4, <1>5, <1>6, <1>7, <1>9

LEMMA SegmentType ==
  \A f \in Flows : \A s \in Segments(f) : s.first \in Nat /\ s.last \in Nat /\ s.first <= s.last
BY CellsType, FrameEndsType

LEMMA CellsInSize ==
  ASSUME NEW f \in Flows, NEW s \in Segments(f)
  PROVE  CellsOf(s) \subseteq 1..Size(f)
<1>1. s.first \in 1..Size(f) /\ s.last \in 1..Size(f)
  BY CellsType
<1>2. Size(f) \in Nat
  BY FrameEndsType
<1>3. QED BY <1>1, <1>2 DEF CellsOf

LEMMA CellsInAppend ==
  ASSUME NEW f \in Flows, NEW q \in Seq(Segments(f)), NEW s \in Segments(f)
  PROVE  CellsIn(Append(q, s)) = CellsIn(q) \cup CellsOf(s)
<1> DEFINE r == Append(q, s)
<1>1. /\ Len(q) \in Nat /\ DOMAIN q = 1..Len(q) /\ DOMAIN r = 1..Len(q) + 1
      /\ \A i \in 1..Len(q) : r[i] = q[i]
      /\ r[Len(q) + 1] = s
  OBVIOUS
<1>2. CellsOf(s) \subseteq Nat
  BY CellsType, FrameEndsType DEF CellsOf
<1> HIDE DEF r
<1>3. CellsIn(r) \subseteq CellsIn(q) \cup CellsOf(s)
  <2> SUFFICES ASSUME NEW c \in Nat, NEW i \in 1..Len(q) + 1, c \in CellsOf(r[i])
      PROVE  c \in CellsIn(q) \cup CellsOf(s)
    BY <1>1 DEF CellsIn
  <2>1. i = Len(q) + 1 \/ i \in 1..Len(q)
    BY <1>1
  <2>2. QED BY <1>1, <2>1 DEF CellsIn
<1>4. CellsIn(q) \subseteq CellsIn(r)
  <2> SUFFICES ASSUME NEW c \in Nat, NEW i \in 1..Len(q), c \in CellsOf(q[i])
      PROVE  c \in CellsIn(r)
    BY <1>1 DEF CellsIn
  <2>1. i \in 1..Len(q) + 1
    BY <1>1
  <2>2. QED BY <1>1, <2>1 DEF CellsIn
<1>5. CellsOf(s) \subseteq CellsIn(r)
  <2>1. Len(q) + 1 \in 1..Len(q) + 1
    BY <1>1
  <2>2. QED BY <1>1, <1>2, <2>1 DEF CellsIn
<1>6. QED BY <1>3, <1>4, <1>5 DEF r

LEMMA ApartAppend ==
  ASSUME NEW f \in Flows, NEW q \in Seq(Segments(f)), NEW s \in Segments(f),
         Apart(q), \A i \in DOMAIN q : q[i].last < s.first
  PROVE  Apart(Append(q, s))
<1> DEFINE r == Append(q, s)
<1>1. /\ Len(q) \in Nat /\ DOMAIN q = 1..Len(q) /\ DOMAIN r = 1..Len(q) + 1
      /\ \A i \in 1..Len(q) : r[i] = q[i]
      /\ r[Len(q) + 1] = s
  OBVIOUS
<1> HIDE DEF r
<1> SUFFICES ASSUME NEW j \in 1..Len(q) + 1, NEW i \in 1..j - 1 PROVE r[i].last < r[j].first
  BY <1>1 DEF Apart, r
<1>2. i \in 1..Len(q)
  BY <1>1
<1>3. CASE j = Len(q) + 1
  BY <1>1, <1>2, <1>3
<1>4. CASE j # Len(q) + 1
  <2>1. j \in 1..Len(q)
    BY <1>1, <1>4
  <2>2. QED BY <1>1, <1>2, <2>1 DEF Apart
<1>5. QED BY <1>3, <1>4

LEMMA CellsInOne ==
  ASSUME NEW f \in Flows, NEW s \in Segments(f)
  PROVE  CellsIn(<<s>>) = CellsOf(s) /\ Apart(<<s>>) /\ CellsOf(s) \subseteq Nat
<1>1. DOMAIN <<s>> = {1} /\ <<s>>[1] = s
  OBVIOUS
<1>2. CellsOf(s) \subseteq Nat
  BY CellsType, FrameEndsType DEF CellsOf
<1>3. Apart(<<s>>)
  BY DEF Apart
<1>4. QED BY <1>1, <1>2, <1>3 DEF CellsIn

(* The segments of a batch in two parts. *)
LEMMA CellsInCons ==
  ASSUME NEW f \in Flows, NEW q \in Seq(Segments(f)), NEW s \in Segments(f)
  PROVE  LET r == <<s>> \o q
         IN /\ CellsIn(r) = CellsOf(s) \cup CellsIn(q)
            /\ Apart(q) /\ (\A i \in DOMAIN q : s.last < q[i].first) => Apart(r)
<1> DEFINE r == <<s>> \o q
<1>1. /\ Len(q) \in Nat /\ DOMAIN q = 1..Len(q) /\ DOMAIN r = 1..1 + Len(q)
      /\ r[1] = s
      /\ \A i \in 2..1 + Len(q) : r[i] = q[i - 1]
  OBVIOUS
<1>2. CellsOf(s) \subseteq Nat
  BY CellsInOne
<1> HIDE DEF r
<1>3. CellsIn(r) \subseteq CellsOf(s) \cup CellsIn(q)
  <2> SUFFICES ASSUME NEW c \in Nat, NEW i \in 1..1 + Len(q), c \in CellsOf(r[i])
      PROVE  c \in CellsOf(s) \cup CellsIn(q)
    BY <1>1 DEF CellsIn
  <2>1. CASE i = 1
    BY <1>1, <2>1
  <2>2. CASE i # 1
    <3>1. i \in 2..1 + Len(q) /\ i - 1 \in 1..Len(q)
      BY <1>1, <2>2
    <3>2. QED BY <1>1, <3>1 DEF CellsIn
  <2>3. QED BY <2>1, <2>2
<1>4. CellsIn(q) \subseteq CellsIn(r)
  <2> SUFFICES ASSUME NEW c \in Nat, NEW i \in 1..Len(q), c \in CellsOf(q[i])
      PROVE  c \in CellsIn(r)
    BY <1>1 DEF CellsIn
  <2>1. i + 1 \in 2..1 + Len(q) /\ i + 1 \in 1..1 + Len(q) /\ i + 1 - 1 = i
    BY <1>1
  <2>2. r[i + 1] = q[i]
    BY <1>1, <2>1
  <2>3. QED BY <1>1, <2>1, <2>2 DEF CellsIn
<1>5. CellsOf(s) \subseteq CellsIn(r)
  <2>1. 1 \in 1..1 + Len(q)
    BY <1>1
  <2>2. QED BY <1>1, <1>2, <2>1 DEF CellsIn
<1>6. ASSUME Apart(q), \A i \in DOMAIN q : s.last < q[i].first PROVE Apart(r)
  <2> SUFFICES ASSUME NEW j \in 1..1 + Len(q), NEW i \in 1..j - 1 PROVE r[i].last < r[j].first
    BY <1>1 DEF Apart
  <2>1. j \in 2..1 + Len(q) /\ j - 1 \in 1..Len(q) /\ r[j] = q[j - 1]
    BY <1>1
  <2>2. CASE i = 1
    BY <1>1, <1>6, <2>1, <2>2
  <2>3. CASE i # 1
    <3>1. i \in 2..1 + Len(q) /\ i - 1 \in 1..(j - 1) - 1
      BY <1>1, <2>1, <2>3
    <3>2. r[i] = q[i - 1]
      BY <1>1, <3>1
    <3>3. q[i - 1].last < q[j - 1].first
      BY <1>1, <1>6, <2>1, <3>1 DEF Apart
    <3>4. QED BY <2>1, <3>2, <3>3
  <2>4. QED BY <2>2, <2>3
<1>7. CellsIn(r) = CellsOf(s) \cup CellsIn(q)
  BY <1>3, <1>4, <1>5
<1>8. QED BY <1>6, <1>7 DEF r

LEMMA CellsInSplit ==
  ASSUME NEW f \in Flows, NEW q \in Seq(Segments(f)), q # <<>>
  PROVE  /\ Head(q) \in Segments(f) /\ Tail(q) \in Seq(Segments(f))
         /\ CellsIn(q) = CellsOf(Head(q)) \cup CellsIn(Tail(q))
         /\ Apart(q) => Apart(Tail(q)) /\ AllBelow(CellsOf(Head(q)), CellsIn(Tail(q)))
<1>1. /\ Len(q) \in Nat \ {0} /\ DOMAIN q = 1..Len(q)
      /\ Head(q) \in Segments(f) /\ Tail(q) \in Seq(Segments(f)) /\ Head(q) = q[1]
      /\ DOMAIN Tail(q) = 1..Len(q) - 1
      /\ \A i \in 1..Len(q) - 1 : Tail(q)[i] = q[i + 1]
  OBVIOUS
<1>2. q = <<Head(q)>> \o Tail(q)
  OBVIOUS
<1>3. CellsIn(q) = CellsOf(Head(q)) \cup CellsIn(Tail(q))
  BY <1>1, <1>2, CellsInCons
<1>4. ASSUME Apart(q) PROVE Apart(Tail(q))
  <2> SUFFICES ASSUME NEW j \in 1..Len(q) - 1, NEW i \in 1..j - 1
      PROVE  Tail(q)[i].last < Tail(q)[j].first
    BY <1>1 DEF Apart
  <2>1. i \in 1..Len(q) - 1 /\ j + 1 \in 1..Len(q) /\ i + 1 \in 1..(j + 1) - 1
    BY <1>1
  <2>2. q[i + 1].last < q[j + 1].first
    BY <1>1, <1>4, <2>1 DEF Apart
  <2>3. QED BY <1>1, <2>1, <2>2
<1>5. ASSUME Apart(q) PROVE AllBelow(CellsOf(Head(q)), CellsIn(Tail(q)))
  <2> SUFFICES ASSUME NEW a \in CellsOf(q[1]), NEW i \in 1..Len(q) - 1,
                      NEW b \in Nat, b \in CellsOf(Tail(q)[i])
      PROVE  a < b
    BY <1>1 DEF AllBelow, CellsIn
  <2>1. i + 1 \in 1..Len(q) /\ 1 \in 1..(i + 1) - 1 /\ 1 \in 1..Len(q) /\ Tail(q)[i] = q[i + 1]
    BY <1>1
  <2>2. q[1].last < q[i + 1].first
    BY <1>1, <1>5, <2>1 DEF Apart
  <2>3. q[1] \in Segments(f) /\ q[i + 1] \in Segments(f)
    BY <1>1, <2>1
  <2>4. q[1].last \in Nat /\ q[1].first \in Nat /\ q[i + 1].first \in Nat /\ q[i + 1].last \in Nat
    BY <2>3, SegmentType
  <2>5. a <= q[1].last /\ q[i + 1].first <= b /\ a \in Int
    BY <2>1, <2>4 DEF CellsOf
  <2>6. QED BY <2>2, <2>4, <2>5
<1>6. QED BY <1>1, <1>3, <1>4, <1>5

-----------------------------------------------------------------------------
(***************************************************************************)
(* The order of a flow.  A cell is queued for NextFrame, in the buffer of  *)
(* the reader, in its hand (offered to it, or taken and not yet read), or  *)
(* still to come: missing, held, or not sent.  BytesInOrder is not         *)
(* inductive; what every step preserves is that the cells of each of these *)
(* places are below those of the places behind it, for cells only ever     *)
(* move to the place before, or get lost.                                  *)
(***************************************************************************)
InHand(f) == IF at = "offer" /\ flow = f THEN batch ELSE current[f]
Known(f) == missing[f] # Nothing /\ missing[f] # Unknown

Queued(f) ==
  {c \in Nat : \/ \E i \in DOMAIN dataCh : dataCh[i].flow = f /\ c \in Rng(dataCh[i].body)
               \/ got[f] # 0 /\ c = First(f, got[f])}

ToCome(f) ==
  {c \in 1..Size(f) : \/ Known(f) /\ c \in CellsOf(missing[f])
                      \/ c \in CellsIn(held[f])
                      \/ sent[f] < c}

Chain(Q, B, H, C) ==
  /\ AllBelow(Q, B) /\ AllBelow(Q, H) /\ AllBelow(Q, C)
  /\ AllBelow(B, H) /\ AllBelow(B, C) /\ AllBelow(H, C)

InChain(f) == Chain(Queued(f), Rng(buf[f]), CellsIn(InHand(f)), ToCome(f))

(* What is held comes after what is missing, and was sent. *)
KeptInOrder(f) ==
  /\ Apart(held[f])
  /\ \A i \in DOMAIN held[f] : held[f][i].last <= sent[f]
  /\ Known(f) => /\ missing[f].last <= sent[f]
                 /\ \A i \in DOMAIN held[f] : missing[f].last < held[f][i].first

FlowInv(f) == Increasing(buf[f]) /\ Apart(InHand(f)) /\ KeptInOrder(f) /\ InChain(f)

(* The packets in dataCh: one that has bytes begins with a magic number,   *)
(* and it comes after the frame that NextFrame returned.                   *)
QueueInv ==
  \A j \in DOMAIN dataCh :
    LET d == dataCh[j]
    IN /\ Increasing(d.body)
       /\ \A i \in 1..j - 1 : dataCh[i].flow = d.flow => Below(dataCh[i].body, d.body)
       /\ got[d.flow] # 0 => Below(<<First(d.flow, got[d.flow])>>, d.body)
       /\ d.body # <<>> => d.body[1] \in Magic(d.flow)

OrderInv ==
  /\ BaseInv /\ PendingInv
  /\ \A f \in Flows : FlowInv(f)
  /\ QueueInv

LEMMA ChainShrinks ==
  ASSUME NEW Q, NEW B, NEW H, NEW C, NEW Q1, NEW B1, NEW H1, NEW C1, Chain(Q, B, H, C),
         Q1 \subseteq Q, B1 \subseteq B, H1 \subseteq H, C1 \subseteq C
  PROVE  Chain(Q1, B1, H1, C1)
BY DEF Chain, AllBelow

(* A step that leaves a flow as it is, except that bytes may be lost. *)
LEMMA FlowUnmoved ==
  ASSUME NEW f \in Flows, FlowInv(f), Queued(f)' \subseteq Queued(f), InHand(f)' = InHand(f),
         buf'[f] = <<>> \/ buf'[f] = buf[f], ToCome(f)' \subseteq ToCome(f), KeptInOrder(f)'
  PROVE  FlowInv(f)'
<1>1. Rng(buf'[f]) \subseteq Rng(buf[f]) /\ Increasing(buf'[f])
  BY RngEmpty DEF FlowInv
<1>2. CellsIn(InHand(f)') \subseteq CellsIn(InHand(f)) /\ Apart(InHand(f)')
  BY DEF FlowInv
<1>3. Chain(Queued(f)', Rng(buf'[f]), CellsIn(InHand(f)'), ToCome(f)')
  BY <1>1, <1>2, ChainShrinks DEF FlowInv, InChain
<1>4. QED BY <1>1, <1>2, <1>3 DEF FlowInv, InChain

LEMMA SameQueue ==
  ASSUME UNCHANGED <<dataCh, got>>
  PROVE  (\A f \in Flows : Queued(f)' = Queued(f)) /\ (QueueInv => QueueInv')
BY DEF Queued, QueueInv

LEMMA SameKept ==
  ASSUME NEW f \in Flows, sent'[f] = sent[f], missing'[f] = missing[f], held'[f] = held[f]
  PROVE  ToCome(f)' = ToCome(f) /\ (KeptInOrder(f) => KeptInOrder(f)')
BY DEF ToCome, KeptInOrder, Known

LEMMA SameHand ==
  ASSUME NEW f \in Flows, ~(at = "offer" /\ flow = f), ~(at' = "offer" /\ flow' = f),
         current'[f] = current[f]
  PROVE  InHand(f)' = InHand(f)
BY DEF InHand

(* A segment that was missing, or one that is held, was to come. *)
LEMMA WasToCome ==
  ASSUME TypeOK, NEW f \in Flows
  PROVE  /\ CellsIn(held[f]) \subseteq ToCome(f)
         /\ Known(f) => CellsOf(missing[f]) \subseteq ToCome(f) /\ missing[f] \in Segments(f)
         /\ \A n \in 1..Size(f) : CellsOf([first |-> sent[f] + 1, last |-> n]) \subseteq ToCome(f)
<1>1. held[f] \in Seq(Segments(f)) /\ sent[f] \in Nat /\ Size(f) \in Nat
  BY FrameEndsType DEF TypeOK, NetworkType
<1>2. ASSUME NEW c \in CellsIn(held[f]) PROVE c \in 1..Size(f)
  <2>1. PICK i \in 1..Len(held[f]) : c \in CellsOf(held[f][i])
    BY <1>1 DEF CellsIn
  <2>2. held[f][i] \in Segments(f)
    BY <1>1, <2>1
  <2>3. CellsOf(held[f][i]) \subseteq 1..Size(f)
    BY <2>2, CellsInSize
  <2>4. QED BY <2>1, <2>3
<1>3. ASSUME Known(f) PROVE missing[f] \in Segments(f)
  BY <1>3 DEF TypeOK, NetworkType, Known
<1>4. ASSUME Known(f), NEW c \in CellsOf(missing[f]) PROVE c \in 1..Size(f)
  BY <1>3, <1>4, CellsInSize
<1>5. ASSUME NEW n \in 1..Size(f), NEW c \in CellsOf([first |-> sent[f] + 1, last |-> n])
      PROVE  c \in 1..Size(f) /\ sent[f] < c
  BY <1>1 DEF CellsOf
<1>6. QED BY <1>2, <1>3, <1>4, <1>5 DEF ToCome

LEMMA OrderInit == Init => OrderInv
<1> SUFFICES ASSUME Init PROVE OrderInv
  OBVIOUS
<1>1. BaseInv /\ PendingInv
  BY BaseInit, PendingInit
<1>2. QueueInv
  BY DEF Init, QueueInv
<1>3. ASSUME NEW f \in Flows PROVE FlowInv(f)
  <2>1. /\ buf[f] = <<>> /\ InHand(f) = <<>> /\ held[f] = <<>> /\ got[f] = 0 /\ dataCh = <<>>
        /\ missing[f] = Nothing \/ missing[f] = Unknown
    BY DEF Init, InHand
  <2>2. Queued(f) = {} /\ Rng(buf[f]) = {} /\ CellsIn(InHand(f)) = {}
    BY <2>1, RngEmpty DEF Queued
  <2>3. InChain(f)
    BY <2>2 DEF InChain, Chain, AllBelow
  <2>4. KeptInOrder(f)
    BY <2>1, RngEmpty DEF KeptInOrder, Known
  <2>5. QED BY <2>1, <2>3, <2>4, RngEmpty DEF FlowInv
<1>4. QED BY <1>1, <1>2, <1>3 DEF OrderInv

(* A flow whose bytes are handed to its reader. *)
HandedOver(f) ==
  /\ at' = "offer" /\ flow' = f /\ UNCHANGED <<current, dataCh, got>>
  /\ buf'[f] = <<>> \/ buf'[f] = buf[f]
  /\ held'[f] = <<>> /\ missing'[f] = Nothing
  /\ \A g \in Flows \ {f} : /\ buf'[g] = buf[g] /\ sent'[g] = sent[g]
                            /\ missing'[g] = missing[g] /\ held'[g] = held[g]

(* Nothing is held of a flow, or missing. *)
LEMMA Emptied ==
  ASSUME NEW f \in Flows, held'[f] = <<>>, missing'[f] = Nothing \/ missing'[f] = Unknown
  PROVE  KeptInOrder(f)' /\ ToCome(f)' = {c \in 1..Size(f) : sent'[f] < c}
BY RngEmpty DEF KeptInOrder, ToCome, Known

LEMMA HeldBelow ==
  ASSUME TypeOK, NEW f \in Flows, KeptInOrder(f)
  PROVE  \A c \in CellsIn(held[f]) : c <= sent[f]
<1>1. held[f] \in Seq(Segments(f)) /\ sent[f] \in Nat
  BY DEF TypeOK, NetworkType
<1> SUFFICES ASSUME NEW c \in Nat, NEW i \in DOMAIN held[f], c \in CellsOf(held[f][i])
    PROVE  c <= sent[f]
  BY DEF CellsIn
<1>2. held[f][i] \in Segments(f)
  BY <1>1
<1>3. held[f][i].last \in Nat /\ c <= held[f][i].last
  BY <1>2, SegmentType DEF CellsOf
<1>4. held[f][i].last <= sent[f]
  BY DEF KeptInOrder
<1>5. QED BY <1>1, <1>3, <1>4

(* While the capture goroutine calls the assembler, no reader has bytes in *)
(* its hand.                                                               *)
LEMMA NothingInHand ==
  ASSUME PendingInv, NEW f \in Flows, at # "await", at # "offer"
  PROVE  InHand(f) = <<>>
BY DEF PendingInv, Synchronous, Consuming, Settled, InHand

LEMMA HandedOverKeeps ==
  ASSUME OrderInv, NEW f \in Flows, at # "await", at # "offer", BaseInv', PendingInv',
         HandedOver(f), Apart(batch'), CellsIn(batch') \subseteq ToCome(f),
         sent'[f] >= sent[f], \A c \in CellsIn(batch') : c <= sent'[f]
  PROVE  OrderInv'
<1>1. /\ TypeOK /\ PendingInv /\ TypeOK'
      /\ \A g \in Flows : FlowInv(g)
  BY DEF OrderInv, BaseInv
<1>2. /\ \A g \in Flows : Queued(g)' = Queued(g)
      /\ QueueInv'
  BY SameQueue DEF OrderInv, HandedOver
<1>3. ASSUME NEW g \in Flows \ {f} PROVE FlowInv(g)'
  <2>1. InHand(g)' = InHand(g)
    BY DEF HandedOver, InHand
  <2>2. ToCome(g)' = ToCome(g) /\ KeptInOrder(g)'
    BY <1>1, SameKept DEF HandedOver, FlowInv
  <2>3. buf'[g] = buf[g]
    BY DEF HandedOver
  <2>4. QED BY <1>1, <1>2, <2>1, <2>2, <2>3, FlowUnmoved
<1>4. FlowInv(f)'
  <2>1. KeptInOrder(f)' /\ ToCome(f)' = {c \in 1..Size(f) : sent'[f] < c}
    BY Emptied DEF HandedOver
  <2>2. sent[f] \in Nat /\ sent'[f] \in Nat
    BY <1>1 DEF TypeOK, NetworkType
  <2>3. ToCome(f)' \subseteq ToCome(f)
    <3>1. \A c \in 1..Size(f) : sent'[f] < c => sent[f] < c
      BY <2>2, FrameEndsType
    <3>2. QED BY <2>1, <3>1 DEF ToCome
  <2>4. InHand(f)' = batch'
    BY DEF HandedOver, InHand
  <2>5. AllBelow(CellsIn(batch'), ToCome(f)')
    <3> SUFFICES ASSUME NEW a \in CellsIn(batch'), NEW b \in 1..Size(f), sent'[f] < b PROVE a < b
      BY <2>1 DEF AllBelow
    <3>1. a \in Nat /\ a <= sent'[f] /\ b \in Nat
      BY FrameEndsType DEF CellsIn
    <3>2. QED BY <2>2, <3>1
  <2>6. Rng(buf'[f]) \subseteq Rng(buf[f]) /\ Increasing(buf'[f])
    BY <1>1, RngEmpty DEF HandedOver, FlowInv
  <2>7. Chain(Queued(f), Rng(buf[f]), CellsIn(InHand(f)), ToCome(f))
    BY <1>1 DEF FlowInv, InChain
  <2>8. Chain(Queued(f)', Rng(buf'[f]), CellsIn(batch'), ToCome(f)')
    BY <1>2, <2>3, <2>5, <2>6, <2>7 DEF Chain, AllBelow
  <2>9. InChain(f)'
    BY <2>4, <2>8 DEF InChain
  <2>10. QED BY <2>1, <2>4, <2>6, <2>9 DEF FlowInv
<1>5. QED BY <1>2, <1>3, <1>4 DEF OrderInv

LEMMA OrderAssemble ==
  ASSUME OrderInv, BaseInv', PendingInv', NEW f \in Flows,
         Receive(f) \/ ReceiveAhead(f) \/ ReceiveLate(f)
  PROVE  OrderInv'
<1>1. /\ BaseInv /\ TypeOK /\ PendingInv /\ NothingHeld /\ KeptInOrder(f)
      /\ \A g \in Flows : FlowInv(g)
  BY DEF OrderInv, BaseInv, FlowInv
<1>2. NewReader(f) /\ at = "select" /\ UNCHANGED <<dataCh, got>>
  BY <1>1, ReceiveKeeps, ReceiveAheadKeeps, ReceiveLateKeeps
     DEF Receive, ReceiveAhead, ReceiveLate, output
<1>3. /\ UNCHANGED current /\ (buf'[f] = <<>> \/ buf'[f] = buf[f])
      /\ \A g \in Flows \ {f} : buf'[g] = buf[g]
  BY <1>2 DEF NewReader
<1>4. sent[f] \in Nat /\ held[f] \in Seq(Segments(f))
  BY <1>1 DEF TypeOK, NetworkType
<1>5. CASE Receive(f)
  <2>1. PICK n \in Ends(f) :
          /\ sent[f] < n /\ sent' = [sent EXCEPT ![f] = n] /\ missing[f] = Nothing
          /\ at' = "offer" /\ flow' = f /\ batch' = <<Segment(f, n)>>
          /\ UNCHANGED <<missing, held>>
    BY <1>5 DEF Receive, Reassembled
  <2>2. /\ Segment(f, n) \in Segments(f) /\ n \in Nat /\ n \in 1..Size(f)
        /\ sent'[f] = n /\ \A g \in Flows \ {f} : sent'[g] = sent[g]
    BY <1>1, <1>4, <2>1, NextSegment, EndsType DEF TypeOK, NetworkType
  <2>3. HandedOver(f)
    <3>1. held'[f] = <<>> /\ missing'[f] = Nothing
      BY <1>1, <2>1 DEF NothingHeld
    <3>2. \A g \in Flows \ {f} : missing'[g] = missing[g] /\ held'[g] = held[g]
      BY <2>1
    <3>3. QED BY <1>2, <1>3, <2>1, <2>2, <3>1, <3>2 DEF HandedOver
  <2>4. CellsIn(batch') = CellsOf(Segment(f, n)) /\ Apart(batch')
    BY <2>1, <2>2, CellsInOne
  <2>5. CellsIn(batch') \subseteq ToCome(f)
    BY <1>1, <2>2, <2>4, WasToCome DEF Segment
  <2>6. \A c \in CellsIn(batch') : c <= sent'[f]
    BY <1>4, <2>2, <2>4 DEF Segment, CellsOf
  <2>7. QED BY <1>2, <1>4, <2>1, <2>2, <2>3, <2>4, <2>5, <2>6, HandedOverKeeps
<1>6. CASE ReceiveLate(f)
  <2>1. /\ Known(f) /\ at' = "offer" /\ flow' = f /\ batch' = <<missing[f]>> \o held[f]
        /\ missing' = [missing EXCEPT ![f] = Nothing] /\ held' = [held EXCEPT ![f] = <<>>]
        /\ UNCHANGED sent
    BY <1>6 DEF ReceiveLate, Reassembled, Known
  <2>2. HandedOver(f)
    <3>1. /\ held'[f] = <<>> /\ missing'[f] = Nothing
          /\ \A g \in Flows \ {f} : missing'[g] = missing[g] /\ held'[g] = held[g]
      BY <1>1, <2>1 DEF TypeOK, NetworkType
    <3>2. \A g \in Flows \ {f} : sent'[g] = sent[g]
      BY <2>1
    <3>3. QED BY <1>2, <1>3, <2>1, <3>1, <3>2 DEF HandedOver
  <2>3. missing[f] \in Segments(f)
    BY <1>1, <2>1, WasToCome
  <2>4. CellsIn(batch') = CellsOf(missing[f]) \cup CellsIn(held[f]) /\ Apart(batch')
    BY <1>1, <1>4, <2>1, <2>3, CellsInCons DEF KeptInOrder
  <2>5. CellsIn(batch') \subseteq ToCome(f)
    BY <1>1, <2>1, <2>4, WasToCome
  <2>6. ASSUME NEW c \in CellsOf(missing[f]) PROVE c <= sent[f]
    BY <1>1, <1>4, <2>1, <2>3, SegmentType DEF CellsOf, KeptInOrder
  <2>7. \A c \in CellsIn(batch') : c <= sent'[f]
    BY <1>1, <2>1, <2>4, <2>6, HeldBelow
  <2>8. QED BY <1>2, <1>4, <2>1, <2>2, <2>4, <2>5, <2>7, HandedOverKeeps
<1>7. CASE ReceiveAhead(f)
  <2> DEFINE kept(n) == Append(held[f], Segment(f, n))
  <2>1. PICK n \in Ends(f) :
          /\ sent[f] < n /\ sent' = [sent EXCEPT ![f] = n] /\ missing[f] # Nothing
          /\ \/ held' = [held EXCEPT ![f] = kept(n)] /\ UNCHANGED <<missing, lost, capture>>
             \/ GiveUp(f) /\ Reassembled(f, kept(n))
    BY <1>7 DEF ReceiveAhead
  <2>2. /\ Segment(f, n) \in Segments(f) /\ n \in Nat /\ n \in 1..Size(f)
        /\ Segment(f, n).first = sent[f] + 1 /\ Segment(f, n).last = n
        /\ sent'[f] = n /\ \A g \in Flows \ {f} : sent'[g] = sent[g]
    BY <1>1, <1>4, <2>1, NextSegment, EndsType DEF TypeOK, NetworkType
  <2>3. \A i \in DOMAIN held[f] : held[f][i].last \in Nat /\ held[f][i].last <= sent[f]
    BY <1>1, <1>4, SegmentType DEF KeptInOrder
  <2>4. Apart(kept(n))
    <3>1. held[f] \in Seq(Segments(f)) /\ Apart(held[f])
      BY <1>1, <1>4 DEF KeptInOrder
    <3>2. sent[f] \in Nat
      BY <1>1, <2>2 DEF TypeOK, NetworkType
    <3>3. \A i \in DOMAIN held[f] : held[f][i].last < Segment(f, n).first
      BY <2>2, <2>3, <3>2
    <3>4. QED BY <2>2, <3>1, <3>3, ApartAppend, Zenon
  <2>5. CellsIn(kept(n)) = CellsIn(held[f]) \cup CellsOf(Segment(f, n))
    BY <1>4, <2>2, CellsInAppend
  <2>6. CellsIn(kept(n)) \subseteq ToCome(f)
    BY <1>1, <2>2, <2>5, WasToCome DEF Segment
  <2>7. ASSUME NEW c \in CellsIn(kept(n)) PROVE c <= n
    <3>1. CASE c \in CellsIn(held[f])
      <4>1. c \in Nat /\ c <= sent[f]
        BY <1>1, <3>1, HeldBelow DEF CellsIn
      <4>2. QED BY <1>4, <2>1, <2>2, <4>1
    <3>2. CASE c \in CellsOf(Segment(f, n))
      BY <1>4, <2>2, <3>2 DEF CellsOf
    <3>3. QED BY <2>5, <2>7, <3>1, <3>2
  <2>8. CASE GiveUp(f) /\ Reassembled(f, kept(n))
    <3>1. /\ at' = "offer" /\ flow' = f /\ batch' = kept(n)
          /\ missing' = [missing EXCEPT ![f] = Nothing] /\ held' = [held EXCEPT ![f] = <<>>]
      BY <2>8 DEF GiveUp, Reassembled
    <3>2. HandedOver(f)
      <4>1. /\ held'[f] = <<>> /\ missing'[f] = Nothing
            /\ \A g \in Flows \ {f} : missing'[g] = missing[g] /\ held'[g] = held[g]
        BY <1>1, <3>1 DEF TypeOK, NetworkType
      <4>2. QED BY <1>2, <1>3, <2>2, <3>1, <4>1 DEF HandedOver
    <3>3. sent'[f] >= sent[f]
      BY <1>4, <2>1, <2>2
    <3>4. QED BY <1>2, <2>2, <2>4, <2>6, <2>7, <3>1, <3>2, <3>3, HandedOverKeeps
  <2>9. CASE held' = [held EXCEPT ![f] = kept(n)] /\ UNCHANGED <<missing, lost, capture>>
    <3>1. /\ UNCHANGED <<missing, at, flow, batch, current, dataCh, got>>
          /\ held'[f] = kept(n) /\ \A g \in Flows \ {f} : held'[g] = held[g]
      <4>1. UNCHANGED <<missing, at, flow, batch, current, dataCh, got>>
        BY <1>2, <1>3, <2>9 DEF capture
      <4>2. DOMAIN held = Flows
        BY <1>1 DEF TypeOK, NetworkType
      <4> HIDE DEF kept
      <4>3. held'[f] = kept(n) /\ \A g \in Flows \ {f} : held'[g] = held[g]
        BY <2>9, <4>2
      <4>4. QED BY <4>1, <4>3
    <3> HIDE DEF kept
    <3>2. ToCome(f)' \subseteq ToCome(f)
      <4> SUFFICES ASSUME NEW c \in 1..Size(f),
                          (Known(f) /\ c \in CellsOf(missing[f])) \/ c \in CellsIn(kept(n)) \/ n < c
          PROVE  c \in ToCome(f)
        BY <2>2, <3>1 DEF ToCome, Known
      <4>1. n < c => sent[f] < c
        BY <1>4, <2>1, <2>2, FrameEndsType
      <4>2. QED BY <2>6, <4>1 DEF ToCome
    <3>3. KeptInOrder(f)'
      <4>1. \A i \in DOMAIN kept(n) : i \in DOMAIN held[f] \/ kept(n)[i] = Segment(f, n)
        BY <1>4, <2>2 DEF kept
      <4>2. \A i \in DOMAIN held[f] : kept(n)[i] = held[f][i]
        BY <1>4, <2>2 DEF kept
      <4>3. \A i \in DOMAIN kept(n) : kept(n)[i].last <= n
        BY <1>4, <2>1, <2>2, <2>3, <4>1, <4>2
      <4>4. ASSUME Known(f)
            PROVE  missing[f].last <= n /\ \A i \in DOMAIN kept(n) : missing[f].last < kept(n)[i].first
        <5>1. missing[f].last \in Nat /\ missing[f].last <= sent[f]
          BY <1>1, <4>4, WasToCome, SegmentType DEF KeptInOrder
        <5>2. \A i \in DOMAIN held[f] : missing[f].last < held[f][i].first
          BY <1>1, <4>4 DEF KeptInOrder
        <5>3. missing[f].last <= n /\ missing[f].last < Segment(f, n).first
          BY <1>4, <2>1, <2>2, <5>1
        <5>4. QED BY <4>1, <4>2, <5>2, <5>3
      <4>5. QED BY <2>2, <2>4, <3>1, <4>3, <4>4 DEF KeptInOrder, Known
    <3>4. ASSUME NEW g \in Flows PROVE FlowInv(g)'
      <4>1. InHand(g)' = InHand(g) /\ Queued(g)' = Queued(g)
        BY <3>1, SameQueue DEF InHand
      <4>2. ToCome(g)' \subseteq ToCome(g) /\ KeptInOrder(g)'
        <5>1. CASE g = f
          BY <3>2, <3>3, <5>1
        <5>2. CASE g # f
          BY <1>1, <2>2, <3>1, <5>2, SameKept DEF FlowInv
        <5>3. QED BY <5>1, <5>2
      <4>3. buf'[g] = <<>> \/ buf'[g] = buf[g]
        BY <1>3
      <4>4. QED BY <1>1, <4>1, <4>2, <4>3, FlowUnmoved
    <3>5. QueueInv'
      BY <3>1, SameQueue DEF OrderInv
    <3>6. QED BY <3>4, <3>5 DEF OrderInv
  <2>10. QED BY <2>1, <2>8, <2>9
<1>8. QED BY <1>5, <1>6, <1>7

(* Tick and FlushAll hand over what is held. *)
LEMMA OrderHandHeld ==
  ASSUME OrderInv, BaseInv', PendingInv', NEW f \in Flows, Tick(f) \/ FlushConnection(f)
  PROVE  OrderInv'
<1>1. /\ BaseInv /\ TypeOK /\ PendingInv /\ KeptInOrder(f)
      /\ \A g \in Flows : FlowInv(g)
  BY DEF OrderInv, BaseInv, FlowInv
<1>2. /\ at # "await" /\ at # "offer"
      /\ UNCHANGED <<sent, current, buf, dataCh, got>>
  BY DEF Tick, FlushConnection, reader, output
<1>3. CASE GiveUp(f) /\ Reassembled(f, held[f])
  <2>1. /\ missing' = [missing EXCEPT ![f] = Nothing] /\ held' = [held EXCEPT ![f] = <<>>]
        /\ at' = "offer" /\ flow' = f /\ batch' = held[f]
    BY <1>3 DEF GiveUp, Reassembled
  <2>2. /\ held'[f] = <<>> /\ missing'[f] = Nothing
        /\ \A g \in Flows \ {f} : missing'[g] = missing[g] /\ held'[g] = held[g]
    BY <1>1, <2>1 DEF TypeOK, NetworkType
  <2>3. HandedOver(f)
    BY <1>2, <2>1, <2>2 DEF HandedOver
  <2>4. Apart(batch') /\ CellsIn(batch') \subseteq ToCome(f)
    BY <1>1, <2>1, WasToCome DEF KeptInOrder
  <2>5. sent[f] \in Nat /\ sent'[f] = sent[f]
    BY <1>1, <1>2 DEF TypeOK, NetworkType
  <2>6. \A c \in CellsIn(batch') : c <= sent'[f]
    BY <1>1, <2>1, <2>5, HeldBelow
  <2>7. QED BY <1>2, <2>3, <2>4, <2>5, <2>6, HandedOverKeeps
<1>4. CASE ~(GiveUp(f) /\ Reassembled(f, held[f]))
  <2>1. /\ held[f] = <<>> /\ UNCHANGED <<held, at, flow, batch>>
        /\ missing' = [missing EXCEPT ![f] = IF sent[f] < Size(f) THEN Unknown ELSE Nothing]
    BY <1>4 DEF Tick, FlushConnection, capture
  <2>2. /\ held'[f] = <<>> /\ (missing'[f] = Nothing \/ missing'[f] = Unknown)
        /\ \A g \in Flows \ {f} : missing'[g] = missing[g]
    BY <1>1, <2>1 DEF TypeOK, NetworkType
  <2>3. KeptInOrder(f)' /\ ToCome(f)' = {c \in 1..Size(f) : sent[f] < c}
    BY <1>2, <2>2, Emptied
  <2>4. ASSUME NEW g \in Flows PROVE FlowInv(g)'
    <3>1. InHand(g)' = InHand(g) /\ Queued(g)' = Queued(g)
      BY <1>2, <2>1, SameQueue DEF InHand
    <3>2. ToCome(g)' \subseteq ToCome(g) /\ KeptInOrder(g)'
      <4>1. CASE g = f
        BY <2>3, <4>1 DEF ToCome
      <4>2. CASE g # f
        BY <1>1, <1>2, <2>1, <2>2, <4>2, SameKept DEF FlowInv
      <4>3. QED BY <4>1, <4>2
    <3>3. QED BY <1>1, <1>2, <3>1, <3>2, FlowUnmoved
  <2>5. QueueInv'
    BY <1>2, SameQueue DEF OrderInv
  <2>6. QED BY <2>4, <2>5 DEF OrderInv
<1>5. QED BY <1>3, <1>4

(* The network delays a segment. *)
LEMMA OrderDelay ==
  ASSUME OrderInv, BaseInv', PendingInv', NEW f \in Flows, Delay(f)
  PROVE  OrderInv'
<1>1. /\ BaseInv /\ TypeOK /\ NothingHeld
      /\ \A g \in Flows : FlowInv(g)
  BY DEF OrderInv, BaseInv
<1>2. PICK n \in Ends(f) :
        /\ sent[f] < n /\ missing[f] = Nothing
        /\ missing' = [missing EXCEPT ![f] = Segment(f, n)]
        /\ sent' = [sent EXCEPT ![f] = n]
        /\ UNCHANGED <<held, at, flow, batch, current, buf, dataCh, got>>
  BY DEF Delay, capture, reader, output
<1>3. /\ n \in 1..Size(f) /\ n \in Nat /\ sent[f] \in Nat
      /\ Segment(f, n) = [first |-> sent[f] + 1, last |-> n]
      /\ Segment(f, n).last = n
  BY <1>1, <1>2, EndsType DEF Segment, TypeOK, NetworkType
<1>4. /\ missing'[f] = Segment(f, n) /\ sent'[f] = n /\ held[f] = <<>>
      /\ \A g \in Flows \ {f} : missing'[g] = missing[g] /\ sent'[g] = sent[g]
  BY <1>1, <1>2 DEF TypeOK, NetworkType, NothingHeld
<1>5. KeptInOrder(f)'
  BY <1>2, <1>3, <1>4, RngEmpty DEF KeptInOrder
<1>6. ToCome(f)' \subseteq ToCome(f)
  <2> SUFFICES ASSUME NEW c \in 1..Size(f), c \in CellsOf(Segment(f, n)) \/ c \in CellsIn(<<>>) \/ n < c
      PROVE  c \in ToCome(f)
    BY <1>2, <1>4 DEF ToCome
  <2>1. sent[f] < c
    BY <1>2, <1>3, RngEmpty, FrameEndsType DEF CellsOf
  <2>2. QED BY <2>1 DEF ToCome
<1>7. ASSUME NEW g \in Flows PROVE FlowInv(g)'
  <2>1. InHand(g)' = InHand(g) /\ Queued(g)' = Queued(g)
    BY <1>2, SameQueue DEF InHand
  <2>2. ToCome(g)' \subseteq ToCome(g) /\ KeptInOrder(g)'
    <3>1. CASE g = f
      BY <1>5, <1>6, <3>1
    <3>2. CASE g # f
      BY <1>1, <1>2, <1>4, <3>2, SameKept DEF FlowInv
    <3>3. QED BY <3>1, <3>2
  <2>3. QED BY <1>1, <1>2, <2>1, <2>2, FlowUnmoved
<1>8. QueueInv'
  BY <1>2, SameQueue DEF OrderInv
<1>9. QED BY <1>7, <1>8 DEF OrderInv

(* The steps that move no byte. *)
LEMMA OrderStill ==
  ASSUME OrderInv, BaseInv', PendingInv',
         UNCHANGED <<sent, missing, held, buf, dataCh, got>>,
         \A f \in Flows : InHand(f)' = InHand(f)
  PROVE  OrderInv'
<1>1. ASSUME NEW f \in Flows PROVE FlowInv(f)'
  <2>1. FlowInv(f)
    BY DEF OrderInv
  <2>2. /\ Queued(f)' = Queued(f) /\ ToCome(f)' = ToCome(f)
        /\ KeptInOrder(f)'
    BY <2>1, SameQueue, SameKept DEF FlowInv
  <2>3. QED BY <2>1, <2>2, FlowUnmoved
<1>2. QueueInv'
  BY SameQueue DEF OrderInv
<1>3. QED BY <1>1, <1>2 DEF OrderInv

LEMMA OrderStillSteps ==
  ASSUME OrderInv, BaseInv', PendingInv', NEW f \in Flows,
         \/ Stop \/ SeeDone \/ Return \/ SeeEnd \/ Restart \/ ReadError \/ Finish(f)
         \/ TakeBatch(f) \/ AskMore(f) \/ EndOfStream(f) \/ ShortRead(f) \/ EndEarlier(f)
  PROVE  OrderInv'
<1>1. CASE TakeBatch(f)
  <2>1. /\ at = "offer" /\ flow = f /\ at' = "await"
        /\ current' = [current EXCEPT ![f] = batch]
        /\ UNCHANGED <<sent, missing, held, buf, dataCh, got>>
    BY <1>1 DEF TakeBatch, network, output
  <2>2. DOMAIN current = Flows
    BY DEF OrderInv, PendingInv, TypeInv
  <2>3. \A g \in Flows : InHand(g)' = InHand(g)
    BY <2>1, <2>2 DEF InHand
  <2>4. QED BY <2>1, <2>3, OrderStill
<1>2. CASE ~TakeBatch(f)
  <2>1. /\ UNCHANGED <<sent, missing, held, buf, dataCh, got>>
        /\ UNCHANGED <<flow, batch, current>>
        /\ at' = "offer" <=> at = "offer"
    BY <1>2 DEF Stop, SeeDone, Return, SeeEnd, Restart, ReadError, Finish, AskMore, EndOfStream,
                ShortRead, Die, EndEarlier, network, capture, reader, output
  <2>2. \A g \in Flows : InHand(g)' = InHand(g)
    BY <2>1 DEF InHand
  <2>3. QED BY <2>1, <2>2, OrderStill
<1>3. QED BY <1>1, <1>2

(* What synchronisation drops is below what it keeps. *)
LEMMA SyncedSplit ==
  ASSUME NEW f \in Flows, NEW b \in Seq(1..Size(f)), Increasing(b)
  PROVE  /\ Synced(f, b) \in Seq(1..Size(f)) /\ Increasing(Synced(f, b))
         /\ Rng(Synced(f, b)) \subseteq Rng(b)
         /\ \A c \in Rng(b) \ Rng(Synced(f, b)) : \A k \in Rng(Synced(f, b)) : c < k
         /\ \A c \in Rng(b) \ Rng(Synced(f, b)) : c \notin Magic(f)
<1>1. PICK n \in 0..Len(b) :
        /\ Synced(f, b) \in Seq(1..Size(f)) /\ Len(Synced(f, b)) = Len(b) - n
        /\ \A i \in 1..Len(b) - n : Synced(f, b)[i] = b[n + i]
        /\ \A i \in 1..n : b[i] \notin Magic(f)
  BY SyncedType
<1> DEFINE q == Synced(f, b)
           p == SubSeq(b, 1, n)
<1>2. p \in Seq(1..Size(f)) /\ Len(p) = n /\ \A i \in 1..n : p[i] = b[i]
  BY Prefix
<1>3. Size(f) \in Nat /\ n \in Nat
  BY FrameEndsType
<1> HIDE DEF p
<1>4. /\ Increasing(q) /\ Rng(b) = Rng(p) \cup Rng(q) /\ AllBelow(Rng(p), Rng(q))
  <2>1. q \in Seq(1..Size(f)) /\ Len(q) = Len(b) - n /\ \A i \in 1..Len(b) - n : q[i] = b[n + i]
    BY <1>1
  <2> HIDE DEF q
  <2>2. Parts(b, n, p, q)
    BY <1>2, <2>1 DEF Parts
  <2>3. QED BY <1>2, <1>3, <2>1, <2>2, IncreasingSplit
<1> HIDE DEF q
<1>5. \A c \in Rng(p) : c \notin Magic(f)
  BY <1>1, <1>2, <1>3 DEF Rng
<1>6. QED BY <1>1, <1>4, <1>5 DEF q, AllBelow

LEMMA OrderFill ==
  ASSUME OrderInv, BaseInv', PendingInv', NEW f \in Flows, Fill(f)
  PROVE  OrderInv'
<1>1. /\ TypeOK /\ PendingInv /\ \A g \in Flows : FlowInv(g)
      /\ buf[f] \in Seq(1..Size(f)) /\ current[f] \in Seq(Segments(f)) /\ Size(f) \in Nat
  BY FrameEndsType DEF OrderInv, BaseInv, TypeOK, ReaderType
<1>2. /\ current[f] # <<>>
      /\ buf'[f] = Synced(f, buf[f]) \o Cells(Head(current[f])) /\ current'[f] = Tail(current[f])
      /\ \A g \in Flows \ {f} : buf'[g] = buf[g] /\ current'[g] = current[g]
      /\ UNCHANGED <<sent, missing, held, at, flow, batch, dataCh, got>>
  BY <1>1 DEF Fill, network, capture, output, TypeOK, ReaderType
<1>3. at = "await"
  BY <1>1, <1>2 DEF PendingInv, Synchronous, Consuming, Settled
<1>4. \A g \in Flows : /\ Queued(g)' = Queued(g) /\ ToCome(g)' = ToCome(g)
                       /\ KeptInOrder(g)'
  BY <1>1, <1>2, SameQueue, SameKept DEF FlowInv
<1>5. ASSUME NEW g \in Flows \ {f} PROVE FlowInv(g)'
  <2>1. InHand(g)' = InHand(g)
    BY <1>2 DEF InHand
  <2>2. QED BY <1>1, <1>2, <1>4, <2>1, FlowUnmoved
<1>6. FlowInv(f)'
  <2> DEFINE s == Head(current[f])
             q == Tail(current[f])
             b == Synced(f, buf[f])
  <2>1. InHand(f) = current[f] /\ InHand(f)' = q
    BY <1>2, <1>3 DEF InHand
  <2>2. Apart(current[f]) /\ Increasing(buf[f])
    BY <1>1, <2>1 DEF FlowInv
  <2>3. /\ s \in Segments(f) /\ CellsIn(current[f]) = CellsOf(s) \cup CellsIn(q)
        /\ Apart(q) /\ AllBelow(CellsOf(s), CellsIn(q))
    BY <1>1, <1>2, <2>2, CellsInSplit
  <2>4. b \in Seq(1..Size(f)) /\ Increasing(b) /\ Rng(b) \subseteq Rng(buf[f])
    BY <1>1, <2>2, SyncedSplit
  <2>5. Cells(s) \in Seq(1..Size(f)) /\ Increasing(Cells(s)) /\ Rng(Cells(s)) = CellsOf(s)
    BY <2>3, CellsType, CellsIncrease
  <2>6. Chain(Queued(f), Rng(buf[f]), CellsIn(current[f]), ToCome(f))
    BY <1>1, <2>1 DEF FlowInv, InChain
  <2> HIDE DEF s, q, b
  <2>7. AllBelow(Rng(b), CellsOf(s))
    BY <2>3, <2>4, <2>6 DEF Chain, AllBelow
  <2>8. Increasing(b \o Cells(s)) /\ Rng(b \o Cells(s)) = Rng(b) \cup CellsOf(s)
    BY <1>1, <2>4, <2>5, <2>7, IncreasingConcat, RngConcat
  <2>9. Chain(Queued(f), Rng(b) \cup CellsOf(s), CellsIn(q), ToCome(f))
    BY <2>3, <2>4, <2>6 DEF Chain, AllBelow
  <2>10. buf'[f] = b \o Cells(s)
    BY <1>2 DEF b, s
  <2>11. InChain(f)'
    BY <1>4, <2>1, <2>8, <2>9, <2>10 DEF InChain
  <2>12. QED BY <1>4, <2>1, <2>3, <2>8, <2>10, <2>11 DEF FlowInv
<1>7. QueueInv'
  BY <1>2, SameQueue DEF OrderInv
<1>8. QED BY <1>5, <1>6, <1>7 DEF OrderInv

(* A packet that is queued. *)
LEMMA QueuedAppend ==
  ASSUME TypeOK, NEW f \in Flows, NEW s \in Seq(1..Size(f)),
         dataCh' = Append(dataCh, [flow |-> f, body |-> s]), UNCHANGED got
  PROVE  /\ Queued(f)' = Queued(f) \cup Rng(s)
         /\ \A g \in Flows \ {f} : Queued(g)' = Queued(g)
         /\ DOMAIN dataCh = 1..Len(dataCh) /\ DOMAIN dataCh' = 1..Len(dataCh) + 1
         /\ Len(dataCh) \in Nat
         /\ \A i \in 1..Len(dataCh) : dataCh'[i] = dataCh[i]
         /\ dataCh'[Len(dataCh) + 1] = [flow |-> f, body |-> s]
<1> DEFINE d == [flow |-> f, body |-> s]
           n == Len(dataCh)
<1>1. dataCh \in Seq([flow : Flows, body : Seq(Nat)])
  BY DEF TypeOK, OutputType
<1>2. Rng(s) \subseteq Nat
  BY FrameEndsType, RngType
<1>3. d.flow = f /\ d.body = s /\ dataCh' = Append(dataCh, d)
  OBVIOUS
<1> HIDE DEF d
<1>4. /\ n \in Nat /\ DOMAIN dataCh = 1..n /\ DOMAIN dataCh' = 1..n + 1
      /\ \A i \in 1..n : dataCh'[i] = dataCh[i]
      /\ dataCh'[n + 1] = d
  BY <1>1, <1>3
<1> HIDE DEF n
<1>5. ASSUME NEW g \in Flows
      PROVE  Queued(g)' = Queued(g) \cup (IF g = f THEN Rng(s) ELSE {})
  <2>1. ASSUME NEW c \in Nat, NEW i \in 1..n + 1, dataCh'[i].flow = g, c \in Rng(dataCh'[i].body)
        PROVE  c \in Queued(g) \cup (IF g = f THEN Rng(s) ELSE {})
    <3>1. i = n + 1 \/ i \in 1..n
      BY <1>4
    <3>2. CASE i = n + 1
      BY <1>3, <1>4, <2>1, <3>2
    <3>3. CASE i \in 1..n
      BY <1>4, <2>1, <3>3 DEF Queued
    <3>4. QED BY <3>1, <3>2, <3>3
  <2>2. Queued(g)' \subseteq Queued(g) \cup (IF g = f THEN Rng(s) ELSE {})
    BY <1>4, <2>1 DEF Queued
  <2>3. Queued(g) \subseteq Queued(g)'
    <3>1. \A i \in 1..n : i \in 1..n + 1
      BY <1>4
    <3>2. QED BY <1>4, <3>1 DEF Queued
  <2>4. g = f => Rng(s) \subseteq Queued(g)'
    <3>1. n + 1 \in 1..n + 1
      BY <1>4
    <3>2. QED BY <1>2, <1>3, <1>4, <3>1 DEF Queued
  <2>5. QED BY <2>2, <2>3, <2>4
<1>6. QED BY <1>4, <1>5 DEF d, n

LEMMA OrderQueueFrame ==
  ASSUME OrderInv, BaseInv', PendingInv', NEW f \in Flows, QueueFrame(f)
  PROVE  OrderInv'
<1>1. /\ TypeOK /\ QueueInv /\ \A g \in Flows : FlowInv(g)
      /\ buf[f] \in Seq(1..Size(f)) /\ Size(f) \in Nat /\ Increasing(buf[f])
  BY FrameEndsType DEF OrderInv, BaseInv, TypeOK, ReaderType, FlowInv
<1> DEFINE b == Synced(f, buf[f])
<1>2. PICK length \in Nat :
        /\ length <= Len(b) /\ Len(b) >= HeaderLength /\ Len(b) \in Nat /\ b \in Seq(1..Size(f))
        /\ Read(b, length) \in Seq(1..Size(f)) /\ Len(Read(b, length)) = length
        /\ \A i \in 1..length : Read(b, length)[i] = b[i]
        /\ Rest(b, length) \in Seq(1..Size(f)) /\ Len(Rest(b, length)) = Len(b) - length
        /\ \A i \in 1..Len(b) - length : Rest(b, length)[i] = b[length + i]
        /\ dataCh' = Append(dataCh, [flow |-> f, body |-> Read(b, length)])
        /\ buf' = [buf EXCEPT ![f] = Rest(b, length)]
  BY <1>1, QueueFrameStep, Zenon DEF QueueFrame
<1>3. UNCHANGED <<sent, missing, held, at, flow, batch, current, got>>
  BY DEF QueueFrame, network, capture
<1> DEFINE p == Read(b, length)
           q == Rest(b, length)
<1>4. b # <<>> => b[1] \in Magic(f)
  BY <1>1, SyncedType
<1>5. b \in Seq(1..Size(f)) /\ Increasing(b) /\ Rng(b) \subseteq Rng(buf[f])
  BY <1>1, SyncedSplit
<1>6. /\ length \in 0..Len(b)
      /\ p \in Seq(1..Size(f)) /\ Len(p) = length /\ \A i \in 1..length : p[i] = b[i]
      /\ q \in Seq(1..Size(f)) /\ Len(q) = Len(b) - length
      /\ \A i \in 1..Len(b) - length : q[i] = b[length + i]
      /\ dataCh' = Append(dataCh, [flow |-> f, body |-> p])
  <2>1. length \in Nat /\ length <= Len(b) /\ Len(b) \in Nat
    BY <1>2
  <2>2. length \in 0..Len(b)
    BY <2>1
  <2>3. QED BY <1>2, <2>2, Zenon
<1>7. buf'[f] = q /\ \A g \in Flows \ {f} : buf'[g] = buf[g]
  BY <1>1, <1>2 DEF TypeOK, ReaderType
<1> HIDE DEF b, p, q
<1>8. Increasing(p) /\ Increasing(q) /\ Rng(b) = Rng(p) \cup Rng(q) /\ AllBelow(Rng(p), Rng(q))
  <2>1. Parts(b, length, p, q)
    BY <1>6 DEF Parts
  <2>2. QED BY <1>1, <1>5, <1>6, <2>1, IncreasingSplit
<1>9. /\ Queued(f)' = Queued(f) \cup Rng(p)
      /\ \A g \in Flows \ {f} : Queued(g)' = Queued(g)
      /\ DOMAIN dataCh = 1..Len(dataCh) /\ DOMAIN dataCh' = 1..Len(dataCh) + 1
      /\ Len(dataCh) \in Nat
      /\ \A i \in 1..Len(dataCh) : dataCh'[i] = dataCh[i]
      /\ dataCh'[Len(dataCh) + 1] = [flow |-> f, body |-> p]
  BY <1>1, <1>3, <1>6, QueuedAppend
<1>10. \A g \in Flows : /\ InHand(g)' = InHand(g) /\ ToCome(g)' = ToCome(g)
                        /\ KeptInOrder(g)'
  BY <1>1, <1>3, SameKept DEF InHand, FlowInv
<1>11. ASSUME NEW g \in Flows \ {f} PROVE FlowInv(g)'
  BY <1>1, <1>7, <1>9, <1>10, FlowUnmoved
<1>12. FlowInv(f)'
  <2>1. Chain(Queued(f), Rng(buf[f]), CellsIn(InHand(f)), ToCome(f))
    BY <1>1 DEF FlowInv, InChain
  <2>2. Chain(Queued(f) \cup Rng(p), Rng(q), CellsIn(InHand(f)), ToCome(f))
    BY <1>5, <1>8, <2>1 DEF Chain, AllBelow
  <2>3. InChain(f)'
    BY <1>7, <1>9, <1>10, <2>2 DEF InChain
  <2>4. QED BY <1>1, <1>7, <1>8, <1>10, <2>3 DEF FlowInv
<1>13. QueueInv'
  <2>1. \A c \in Queued(f) : \A k \in Rng(p) : c < k
    BY <1>1, <1>5, <1>8 DEF FlowInv, InChain, Chain, AllBelow
  <2>2. \A i \in DOMAIN p : p[i] \in Rng(p)
    BY DEF Rng
  <2>3. ASSUME NEW j \in 1..Len(dataCh) + 1
        PROVE  LET d == dataCh'[j]
               IN /\ Increasing(d.body)
                  /\ \A i \in 1..j - 1 : dataCh'[i].flow = d.flow => Below(dataCh'[i].body, d.body)
                  /\ got[d.flow] # 0 => Below(<<First(d.flow, got[d.flow])>>, d.body)
                  /\ d.body # <<>> => d.body[1] \in Magic(d.flow)
    <3>1. CASE j \in 1..Len(dataCh)
      <4>1. \A i \in 1..j - 1 : dataCh'[i] = dataCh[i]
        BY <1>9, <3>1
      <4>2. QED BY <1>1, <1>9, <3>1, <4>1 DEF QueueInv
    <3>2. CASE j = Len(dataCh) + 1
      <4>1. dataCh'[j].flow = f /\ dataCh'[j].body = p
        BY <1>9, <3>2
      <4>2. ASSUME NEW i \in 1..j - 1, dataCh'[i].flow = f PROVE Below(dataCh'[i].body, p)
        <5>1. i \in 1..Len(dataCh) /\ dataCh'[i] = dataCh[i]
          BY <1>9, <3>2
        <5>2. \A k \in DOMAIN dataCh[i].body : dataCh[i].body[k] \in Nat
          <6>1. dataCh \in Seq([flow : Flows, body : Seq(Nat)])
            BY <1>1 DEF TypeOK, OutputType
          <6>2. dataCh[i] \in [flow : Flows, body : Seq(Nat)]
            BY <5>1, <6>1, ElementOfSeq, Zenon
          <6>3. dataCh[i].body \in Seq(Nat)
            BY <6>2
          <6>4. QED BY <6>3, ElementOfSeq, LenProperties, Zenon
        <5>3. \A k \in DOMAIN dataCh[i].body : dataCh[i].body[k] \in Queued(f)
          BY <1>9, <4>2, <5>1, <5>2 DEF Queued, Rng
        <5>4. QED BY <2>1, <2>2, <5>1, <5>3 DEF Below
      <4>3. ASSUME got[f] # 0 PROVE Below(<<First(f, got[f])>>, p)
        <5>1. First(f, got[f]) \in Nat
          BY <1>1, <4>3, FrameEndsType DEF TypeOK, OutputType
        <5>2. First(f, got[f]) \in Queued(f)
          BY <4>3, <5>1 DEF Queued
        <5>3. QED BY <2>1, <2>2, <5>2 DEF Below
      <4>4. ASSUME p # <<>> PROVE p[1] \in Magic(f)
        <5>1. 1 \in 1..length /\ b # <<>>
          BY <1>5, <1>6, <4>4
        <5>2. QED BY <1>4, <1>6, <5>1 DEF b
      <4>5. QED BY <1>8, <4>1, <4>2, <4>3, <4>4
    <3>3. QED BY <1>9, <3>1, <3>2
  <2>4. QED BY <1>3, <1>9, <2>3 DEF QueueInv
<1>14. QED BY <1>11, <1>12, <1>13 DEF OrderInv

(* NextFrame takes the first packet.  It returns the frame whose magic     *)
(* number is the first byte of the packet, if it returns one.              *)
LEMMA NextFrameStep ==
  ASSUME TypeOK, QueueInv, NextFrame
  PROVE  /\ Len(dataCh) \in Nat \ {0} /\ DOMAIN dataCh = 1..Len(dataCh)
         /\ DOMAIN dataCh' = 1..Len(dataCh) - 1
         /\ \A i \in 1..Len(dataCh) - 1 : dataCh'[i] = dataCh[i + 1]
         /\ dataCh[1].flow \in Flows /\ dataCh[1].body \in Seq(1..Size(dataCh[1].flow))
         /\ \A g \in Flows \ {dataCh[1].flow} : got'[g] = got[g]
         /\ \/ UNCHANGED got /\ Decode(dataCh[1]) = {}
            \/ /\ got'[dataCh[1].flow] \in Frames(dataCh[1].flow)
               /\ First(dataCh[1].flow, got'[dataCh[1].flow]) = dataCh[1].body[1]
               /\ Len(dataCh[1].body) >= HeaderLength
<1>1. /\ dataCh \in Seq([flow : Flows, body : Seq(Nat)]) /\ dataCh # <<>> /\ dataCh' = Tail(dataCh)
      /\ \A i \in DOMAIN dataCh : dataCh[i].body \in Seq(1..Size(dataCh[i].flow))
      /\ DOMAIN got = Flows
  BY DEF TypeOK, OutputType, NextFrame
<1> DEFINE d == dataCh[1]
           f == d.flow
<1>2. /\ Len(dataCh) \in Nat \ {0} /\ DOMAIN dataCh = 1..Len(dataCh) /\ 1 \in DOMAIN dataCh
      /\ DOMAIN dataCh' = 1..Len(dataCh) - 1
      /\ \A i \in 1..Len(dataCh) - 1 : dataCh'[i] = dataCh[i + 1]
      /\ Head(dataCh) = d
  BY <1>1
<1>3. d \in [flow : Flows, body : Seq(Nat)]
  BY <1>1, <1>2, ElementOfSeq, Zenon
<1>4. f \in Flows /\ d.body \in Seq(1..Size(f))
  BY <1>1, <1>2, <1>3
<1>5. \/ UNCHANGED got /\ Decode(d) = {}
      \/ \E k \in Decode(d) : got' = [got EXCEPT ![f] = k]
  BY <1>2, Zenon DEF NextFrame
<1>6. d.body # <<>> => d.body[1] \in Magic(f)
  BY <1>2 DEF QueueInv
<1> HIDE DEF d, f
<1>7. ASSUME NEW k \in Decode(d), got' = [got EXCEPT ![f] = k]
      PROVE  /\ got'[f] \in Frames(f) /\ First(f, got'[f]) = d.body[1]
             /\ \A g \in Flows \ {f} : got'[g] = got[g]
             /\ Len(d.body) >= HeaderLength
  <2>1. /\ k \in Frames(f) /\ d.body[1] \in First(f, k)..Last(f, k)
        /\ ~(Len(d.body) < HeaderLength)
    BY DEF Decode, f
  <2>2. d.body # <<>> /\ Len(d.body) >= HeaderLength
    BY <1>4, <2>1 DEF HeaderLength
  <2>3. PICK j \in Frames(f) : d.body[1] = First(f, j)
    BY <1>6, <2>2 DEF Magic
  <2>4. d.body[1] \in First(f, j)..Last(f, j)
    <3>1. /\ First(f, j) \in Nat /\ Last(f, j) \in Nat /\ First(f, j) + 1 <= Last(f, j)
      BY <1>4, <2>3, FrameEndsType
    <3>2. QED BY <2>3, <3>1
  <2>5. j = k
    BY <1>4, <2>1, <2>4, FrameUnique
  <2>6. QED BY <1>1, <1>4, <1>7, <2>1, <2>2, <2>3, <2>5
<1>8. QED BY <1>2, <1>4, <1>5, <1>7 DEF d, f

LEMMA OrderNextFrame ==
  ASSUME OrderInv, BaseInv', PendingInv', NextFrame
  PROVE  OrderInv'
<1>1. /\ TypeOK /\ QueueInv /\ \A g \in Flows : FlowInv(g)
  BY DEF OrderInv, BaseInv
<1> DEFINE d == dataCh[1]
           f == d.flow
<1>2. /\ Len(dataCh) \in Nat \ {0} /\ DOMAIN dataCh = 1..Len(dataCh)
      /\ DOMAIN dataCh' = 1..Len(dataCh) - 1
      /\ \A i \in 1..Len(dataCh) - 1 : dataCh'[i] = dataCh[i + 1]
      /\ f \in Flows /\ d.body \in Seq(1..Size(f))
      /\ \A g \in Flows \ {f} : got'[g] = got[g]
      /\ \/ UNCHANGED got
         \/ /\ got'[f] \in Frames(f) /\ First(f, got'[f]) = d.body[1]
            /\ Len(d.body) >= HeaderLength
  BY <1>1, NextFrameStep
<1>3. UNCHANGED <<sent, missing, held, at, flow, batch, current, buf>>
  BY DEF NextFrame, network, capture, reader
<1>4. 1 \in 1..Len(dataCh) /\ \A i \in 1..Len(dataCh) - 1 : i + 1 \in 1..Len(dataCh)
  BY <1>2
<1>5. ASSUME NEW g \in Flows PROVE Queued(g)' \subseteq Queued(g)
  <2>1. ASSUME NEW c \in Nat, NEW i \in 1..Len(dataCh) - 1, dataCh'[i].flow = g,
               c \in Rng(dataCh'[i].body)
        PROVE  c \in Queued(g)
    BY <1>2, <1>4, <2>1 DEF Queued
  <2>2. ASSUME NEW c \in Nat, got'[g] # 0, c = First(g, got'[g]) PROVE c \in Queued(g)
    <3>1. CASE got'[g] = got[g]
      BY <2>2, <3>1 DEF Queued
    <3>2. CASE got'[g] # got[g]
      <4>1. g = f /\ c = d.body[1] /\ Len(d.body) >= HeaderLength
        BY <1>2, <2>2, <3>2
      <4>2. 1 \in DOMAIN d.body
        BY <1>2, <4>1 DEF HeaderLength
      <4>3. c \in Rng(d.body)
        BY <4>1, <4>2 DEF Rng
      <4>4. QED BY <1>2, <1>4, <4>1, <4>3 DEF Queued
    <3>3. QED BY <3>1, <3>2
  <2>3. QED BY <1>2, <2>1, <2>2 DEF Queued
<1>6. ASSUME NEW g \in Flows PROVE FlowInv(g)'
  <2>1. InHand(g)' = InHand(g) /\ ToCome(g)' = ToCome(g) /\ KeptInOrder(g)'
    BY <1>1, <1>3, SameKept DEF InHand, FlowInv
  <2>2. QED BY <1>1, <1>3, <1>5, <2>1, FlowUnmoved
<1>7. ASSUME NEW j \in 1..Len(dataCh) - 1
      PROVE  LET e == dataCh'[j]
             IN /\ Increasing(e.body)
                /\ \A i \in 1..j - 1 : dataCh'[i].flow = e.flow => Below(dataCh'[i].body, e.body)
                /\ got'[e.flow] # 0 => Below(<<First(e.flow, got'[e.flow])>>, e.body)
                /\ e.body # <<>> => e.body[1] \in Magic(e.flow)
  <2> DEFINE e == dataCh[j + 1]
  <2>1. j + 1 \in 1..Len(dataCh) /\ dataCh'[j] = e /\ 1 \in 1..(j + 1) - 1
    BY <1>2, <1>4
  <2>2. /\ Increasing(e.body)
        /\ \A i \in 1..(j + 1) - 1 : dataCh[i].flow = e.flow => Below(dataCh[i].body, e.body)
        /\ got[e.flow] # 0 => Below(<<First(e.flow, got[e.flow])>>, e.body)
        /\ e.body # <<>> => e.body[1] \in Magic(e.flow)
    BY <1>1, <1>2, <2>1 DEF QueueInv
  <2>3. ASSUME NEW i \in 1..j - 1, dataCh'[i].flow = e.flow PROVE Below(dataCh'[i].body, e.body)
    <3>1. i + 1 \in 1..(j + 1) - 1 /\ i \in 1..Len(dataCh) - 1
      BY <1>2
    <3>2. QED BY <1>2, <2>2, <2>3, <3>1
  <2>4. ASSUME got'[e.flow] # 0 PROVE Below(<<First(e.flow, got'[e.flow])>>, e.body)
    <3>1. CASE got'[e.flow] = got[e.flow]
      BY <2>2, <2>4, <3>1
    <3>2. CASE got'[e.flow] # got[e.flow]
      <4>1. e.flow \in Flows
        <5>1. dataCh \in Seq([flow : Flows, body : Seq(Nat)])
          BY <1>1 DEF TypeOK, OutputType
        <5>2. dataCh[j + 1] \in [flow : Flows, body : Seq(Nat)]
          BY <2>1, <5>1, ElementOfSeq, Zenon
        <5>3. QED BY <5>2
      <4>2. /\ e.flow = f /\ First(e.flow, got'[e.flow]) = d.body[1]
            /\ Len(d.body) >= HeaderLength
        BY <1>2, <3>2, <4>1
      <4>3. Below(d.body, e.body) /\ 1 \in DOMAIN d.body
        BY <1>2, <2>1, <2>2, <4>2 DEF HeaderLength
      <4>4. QED BY <4>2, <4>3 DEF Below
    <3>3. QED BY <3>1, <3>2
  <2>5. QED BY <2>1, <2>2, <2>3, <2>4
<1>8. QueueInv'
  BY <1>2, <1>7 DEF QueueInv
<1>9. QED BY <1>6, <1>8 DEF OrderInv

LEMMA OrderNext == OrderInv /\ [Next]_vars => OrderInv'
<1> SUFFICES ASSUME OrderInv, [Next]_vars PROVE OrderInv'
  OBVIOUS
<1>1. BaseInv' /\ PendingInv'
  BY BaseNext, PendingNext DEF OrderInv
<1>2. CASE UNCHANGED vars
  <2>1. UNCHANGED <<sent, missing, held, buf, dataCh, got, at, flow, batch, current>>
    BY <1>2 DEF vars, network, capture, reader, output
  <2>2. \A f \in Flows : InHand(f)' = InHand(f)
    BY <2>1 DEF InHand
  <2>3. QED BY <1>1, <2>1, <2>2, OrderStill
<1>3. ASSUME NEW f \in Flows, Receive(f) \/ ReceiveAhead(f) \/ ReceiveLate(f)
      PROVE  OrderInv'
  BY <1>1, <1>3, OrderAssemble
<1>4. ASSUME NEW f \in Flows, Tick(f) \/ FlushConnection(f) PROVE OrderInv'
  BY <1>1, <1>4, OrderHandHeld
<1>5. ASSUME NEW f \in Flows, Delay(f) PROVE OrderInv'
  BY <1>1, <1>5, OrderDelay
<1>6. ASSUME NEW f \in Flows, Fill(f) PROVE OrderInv'
  BY <1>1, <1>6, OrderFill
<1>7. ASSUME NEW f \in Flows, QueueFrame(f) PROVE OrderInv'
  BY <1>1, <1>7, OrderQueueFrame
<1>8. CASE NextFrame
  BY <1>1, <1>8, OrderNextFrame
<1>9. ASSUME NEW f \in Flows,
             \/ Stop \/ SeeDone \/ Return \/ SeeEnd \/ Restart \/ ReadError \/ Finish(f)
             \/ TakeBatch(f) \/ AskMore(f) \/ EndOfStream(f) \/ ShortRead(f) \/ EndEarlier(f)
      PROVE  OrderInv'
  BY <1>1, <1>9, OrderStillSteps
<1>10. flow \in Flows
  BY DEF OrderInv, BaseInv, TypeOK, CaptureType
<1>11. QED BY <1>2, <1>3, <1>4, <1>5, <1>6, <1>7, <1>8, <1>9, <1>10 DEF Next, Start, Run

(* The data queued for NextFrame (sniffer.go:237) is made of bytes of its  *)
(* flow in the order in which they were sent, none twice and none made up, *)
(* and begins after the last frame that NextFrame has returned: whatever   *)
(* was lost, late or cut, and whatever was read as a length.               *)
THEOREM QueuedInOrder == Spec => []BytesInOrder
<1>1. OrderInv => BytesInOrder
  <2> SUFFICES ASSUME OrderInv, NEW j \in DOMAIN dataCh
      PROVE  LET d == dataCh[j]
             IN /\ d.body \in Seq(1..Size(d.flow)) /\ Increasing(d.body)
                /\ \A i \in 1..j - 1 : dataCh[i].flow = d.flow => Below(dataCh[i].body, d.body)
                /\ got[d.flow] # 0 => Below(<<Last(d.flow, got[d.flow])>>, d.body)
    BY DEF BytesInOrder
  <2> DEFINE d == dataCh[j]
             f == d.flow
             b == d.body
             k == got[f]
  <2>1. TypeOK /\ QueueInv
    BY DEF OrderInv, BaseInv
  <2>2. /\ b \in Seq(1..Size(f)) /\ Increasing(b)
        /\ \A i \in 1..j - 1 : dataCh[i].flow = f => Below(dataCh[i].body, b)
        /\ k # 0 => Below(<<First(f, k)>>, b)
        /\ b # <<>> => b[1] \in Magic(f)
    BY <2>1 DEF TypeOK, OutputType, QueueInv
  <2>3. f \in Flows
    <3>1. dataCh \in Seq([flow : Flows, body : Seq(Nat)])
      BY <2>1 DEF TypeOK, OutputType
    <3>2. j \in 1..Len(dataCh)
      BY <3>1
    <3>3. d \in [flow : Flows, body : Seq(Nat)]
      BY <3>1, <3>2, ElementOfSeq, Zenon
    <3>4. QED BY <3>3
  <2>4. k # 0 => k \in Frames(f)
    BY <2>1, <2>3 DEF TypeOK, OutputType
  <2> HIDE DEF d, f, b, k
  <2>5. ASSUME k # 0, NEW i \in DOMAIN b PROVE Last(f, k) < b[i]
    <3>1. /\ i \in 1..Len(b) /\ 1 \in 1..Len(b) /\ b # <<>> /\ DOMAIN b = 1..Len(b)
          /\ \A n \in 1..Len(b) : b[n] \in 1..Size(f)
      <4>1. b \in Seq(1..Size(f)) /\ i \in DOMAIN b
        BY <2>2, <2>5
      <4>2. DOMAIN b = 1..Len(b) /\ Len(b) \in Nat
        BY <4>1
      <4>3. b # <<>> /\ 1 \in 1..Len(b)
        BY <4>1, <4>2
      <4>4. \A n \in 1..Len(b) : b[n] \in 1..Size(f)
        BY <4>1, ElementOfSeq, Zenon
      <4>5. QED BY <4>1, <4>2, <4>3, <4>4
    <3>2. PICK n \in Frames(f) : b[1] = First(f, n)
      BY <2>2, <3>1 DEF Magic
    <3>3. First(f, k) < First(f, n)
      BY <2>2, <2>5, <3>1, <3>2 DEF Below
    <3>4. Last(f, k) < First(f, n)
      BY <2>3, <2>4, <2>5, <3>3, FirstOrder
    <3>5. b[1] <= b[i]
      <4>1. CASE i = 1
        <5>1. b[1] \in Int
          BY <3>1
        <5>2. QED BY <4>1, <5>1
      <4>2. CASE i # 1
        <5>1. 1 \in 1..i - 1
          BY <3>1, <4>2
        <5>2. b[1] < b[i]
          BY <2>2, <3>1, <5>1 DEF Increasing
        <5>3. QED BY <3>1, <5>2
      <4>3. QED BY <4>1, <4>2
    <3>6. /\ Last(f, k) \in Nat /\ First(f, n) \in Nat /\ b[i] \in Nat
      <4>1. Last(f, k) \in Nat /\ First(f, n) \in Nat
        BY <2>3, <2>4, <2>5, FrameEndsType
      <4>2. b[i] \in 1..Size(f)
        BY <3>1
      <4>3. QED BY <4>1, <4>2
    <3>7. QED BY <3>2, <3>4, <3>5, <3>6
  <2>6. k # 0 => Below(<<Last(f, k)>>, b)
    BY <2>5 DEF Below
  <2>7. QED BY <2>2, <2>6 DEF d, f, b, k
<1>2. QED BY <1>1, OrderInit, OrderNext, PTL DEF Spec

-----------------------------------------------------------------------------
(***************************************************************************)
(* The cost of a loss.  The bytes on their way to run are those that       *)
(* synchronisation leaves of its buffer, and those in the hand of its      *)
(* reader.  A jump is a cell of them after which cells are missing.  A     *)
(* packet that is no frame takes a jump out of the stream (BrokenTakesJump);*)
(* only a segment that is given up brings one in.  So the broken packets   *)
(* and the jumps together are no more than the segments given up.          *)
(***************************************************************************)
Pending(f) == Rng(Synced(f, buf[f])) \cup CellsIn(InHand(f))
Jumps(P) == {p \in P : p + 1 \notin P /\ \E q \in P : p < q}

(* The last cell of a flow before what is still to come. *)
Edge(f) == IF Known(f) THEN missing[f].first - 1 ELSE sent[f]

(* The cells held are all that were sent after the missing ones. *)
Line(f) ==
  \E a \in 1..sent[f] + 1 :
    CellsIn(held[f]) = a..sent[f] /\ (Known(f) => a = missing[f].last + 1)

(* What is on its way to run reaches up to what is still to come. *)
Joined(f) ==
  pc[f] = "running" /\ link[f] # "closed" /\ Pending(f) # {} =>
    missing[f] # Unknown /\ Edge(f) \in Pending(f)

Paid(f) ==
  /\ broken[f] <= lost[f]
  /\ pc[f] = "running" => broken[f] + Cardinality(Jumps(Pending(f))) <= lost[f]

LossFlow(f) == Line(f) /\ Joined(f) /\ Paid(f)
LossInv == OrderInv /\ \A f \in Flows : LossFlow(f)

LEMMA JumpsType ==
  ASSUME NEW n \in Nat, NEW P \in SUBSET (1..n)
  PROVE  IsFiniteSet(Jumps(P)) /\ Cardinality(Jumps(P)) \in Nat
<1>1. Jumps(P) \in SUBSET (1..n)
  BY DEF Jumps
<1>2. IsFiniteSet(Jumps(P))
  <2>1. 1 \in Int /\ n \in Int
    OBVIOUS
  <2>2. IsFiniteSet(1..n)
    BY <2>1, FS_Interval
  <2>3. QED BY <1>1, <2>2, FS_Subset
<1>3. QED BY <1>2, FS_CardinalityType

(* Without its least cells a set has no more jumps. *)
LEMMA JumpsShrink ==
  ASSUME NEW n \in Nat, NEW P \in SUBSET (1..n), NEW Q \in SUBSET P,
         AllBelow(P \ Q, Q)
  PROVE  /\ Jumps(Q) \subseteq Jumps(P)
         /\ Cardinality(Jumps(Q)) <= Cardinality(Jumps(P))
         /\ \A j \in Jumps(P) \ Q : Cardinality(Jumps(Q)) + 1 <= Cardinality(Jumps(P))
<1>1. IsFiniteSet(Jumps(P)) /\ Cardinality(Jumps(P)) \in Nat
  BY JumpsType
<1>2. IsFiniteSet(Jumps(Q)) /\ Cardinality(Jumps(Q)) \in Nat
  BY JumpsType
<1>3. ASSUME NEW p \in Jumps(Q) PROVE p \in Jumps(P)
  <2>1. p \in Q /\ p + 1 \notin Q /\ (\E q \in Q : p < q) /\ p \in Nat
    BY <1>3 DEF Jumps
  <2>2. p + 1 \notin P
    <3> SUFFICES ASSUME p + 1 \in P PROVE FALSE
      OBVIOUS
    <3>1. p + 1 \in P \ Q
      BY <2>1
    <3>2. p + 1 < p
      BY <2>1, <3>1 DEF AllBelow
    <3>3. QED BY <2>1, <3>2
  <2>3. QED BY <2>1, <2>2 DEF Jumps
<1>4. Jumps(Q) \in SUBSET Jumps(P)
  BY <1>3
<1>5. Cardinality(Jumps(Q)) <= Cardinality(Jumps(P))
  BY <1>1, <1>4, FS_Subset
<1>6. ASSUME NEW j \in Jumps(P) \ Q
      PROVE  Cardinality(Jumps(Q)) + 1 <= Cardinality(Jumps(P))
  <2>1. j \notin Jumps(Q)
    BY <1>6 DEF Jumps
  <2>2. Cardinality(Jumps(Q)) # Cardinality(Jumps(P))
    BY <1>1, <1>4, <1>6, <2>1, FS_Subset
  <2>3. QED BY <1>1, <1>2, <1>5, <2>2
<1>7. QED BY <1>4, <1>5, <1>6

(* An interval has no jump; with one more cell before it, it has at most   *)
(* one, and none if that cell is next to it.                               *)
LEMMA JumpsInterval ==
  ASSUME NEW a \in Nat, NEW m \in Nat, NEW S, S = {} \/ \E c \in Nat : S = {c} /\ c < a
  PROVE  /\ S = {} \/ (a # 0 /\ a - 1 \in S) => Cardinality(Jumps(S \cup a..m)) = 0
         /\ Cardinality(Jumps(S \cup a..m)) <= 1
         /\ Cardinality(Jumps(S \cup a..m)) \in Nat
<1>1. ASSUME S = {} \/ (a # 0 /\ a - 1 \in S) PROVE Jumps(S \cup a..m) = {}
  <2>1. CASE S = {}
    BY <2>1 DEF Jumps
  <2>2. CASE a # 0 /\ a - 1 \in S
    <3>1. S = {a - 1} /\ a - 1 \in Nat
      BY <2>2
    <3>2. QED BY <3>1 DEF Jumps
  <2>3. QED BY <1>1, <2>1, <2>2
<1>2. Cardinality({}) = 0 /\ IsFiniteSet({})
  BY FS_EmptySet
<1>3. CASE S = {}
  <2>1. Jumps(S \cup a..m) = {}
    BY <1>1, <1>3
  <2>2. Cardinality(Jumps(S \cup a..m)) = 0
    BY <1>2, <2>1
  <2>3. QED BY <2>2
<1>4. ASSUME NEW c \in Nat, S = {c}, c < a
      PROVE  Cardinality(Jumps(S \cup a..m)) <= 1 /\ Cardinality(Jumps(S \cup a..m)) \in Nat
  <2>1. Jumps(S \cup a..m) \in SUBSET {c}
    BY <1>4 DEF Jumps
  <2>2. IsFiniteSet({c}) /\ Cardinality({c}) = 1
    BY FS_Singleton
  <2>3. /\ IsFiniteSet(Jumps(S \cup a..m))
        /\ Cardinality(Jumps(S \cup a..m)) <= Cardinality({c})
    BY <2>1, <2>2, FS_Subset
  <2>4. QED BY <2>2, <2>3, FS_CardinalityType
<1>5. QED BY <1>1, <1>2, <1>3, <1>4

(* What is on its way to run is sent, and comes before what is to come. *)
LEMMA PendingType ==
  ASSUME OrderInv, NEW f \in Flows
  PROVE  /\ Pending(f) \in SUBSET (1..Size(f)) /\ Size(f) \in Nat
         /\ \A c \in Pending(f) : c <= Edge(f)
         /\ AllBelow(Rng(Synced(f, buf[f])), CellsIn(InHand(f)))
         /\ Edge(f) \in Nat /\ sent[f] \in Nat
<1>1. /\ TypeOK /\ FlowInv(f) /\ Size(f) \in Nat
      /\ buf[f] \in Seq(1..Size(f)) /\ sent[f] \in Nat /\ sent[f] <= Size(f)
  BY FrameEndsType DEF OrderInv, BaseInv, TypeOK, ReaderType, NetworkType
<1>2. /\ Rng(Synced(f, buf[f])) \subseteq Rng(buf[f]) /\ Rng(buf[f]) \subseteq 1..Size(f)
  BY <1>1, SyncedSplit, RngType DEF FlowInv
<1>3. InHand(f) \in Seq(Segments(f))
  BY <1>1 DEF InHand, TypeOK, CaptureType, ReaderType
<1>4. CellsIn(InHand(f)) \subseteq 1..Size(f)
  <2> SUFFICES ASSUME NEW c \in Nat, NEW i \in DOMAIN InHand(f), c \in CellsOf(InHand(f)[i])
      PROVE  c \in 1..Size(f)
    BY DEF CellsIn
  <2>1. InHand(f)[i] \in Segments(f)
    BY <1>3
  <2>2. QED BY <1>1, <2>1, CellsType DEF CellsOf
<1>5. AllBelow(Rng(buf[f]), CellsIn(InHand(f))) /\ AllBelow(Rng(buf[f]), ToCome(f))
      /\ AllBelow(CellsIn(InHand(f)), ToCome(f))
  BY <1>1 DEF FlowInv, InChain, Chain
<1>6. \A c \in Pending(f) : c \in 1..Size(f) /\ \A d \in ToCome(f) : c < d
  BY <1>2, <1>4, <1>5 DEF Pending, AllBelow
<1>7. Edge(f) \in Nat /\ (Edge(f) = Size(f) \/ Edge(f) + 1 \in ToCome(f))
  <2>1. CASE Known(f)
    <3>1. /\ missing[f].first \in 1..Size(f) /\ missing[f].last \in Nat
          /\ missing[f].first <= missing[f].last
      BY <1>1, <2>1, WasToCome, CellsType, FrameEndsType
    <3>2. missing[f].first \in CellsOf(missing[f])
      BY <1>1, <3>1 DEF CellsOf
    <3>3. missing[f].first \in ToCome(f)
      BY <2>1, <3>1, <3>2 DEF ToCome
    <3>4. Edge(f) \in Nat /\ Edge(f) + 1 = missing[f].first
      BY <1>1, <2>1, <3>1 DEF Edge
    <3>5. QED BY <3>3, <3>4
  <2>2. CASE ~Known(f)
    <3>1. Edge(f) = sent[f]
      BY <2>2 DEF Edge
    <3>2. sent[f] < Size(f) => sent[f] + 1 \in 1..Size(f) /\ sent[f] < sent[f] + 1
      BY <1>1
    <3>3. QED BY <1>1, <3>1, <3>2 DEF ToCome
  <2>3. QED BY <2>1, <2>2
<1>8. ASSUME NEW c \in Pending(f) PROVE c <= Edge(f)
  BY <1>1, <1>6, <1>7
<1>9. AllBelow(Rng(Synced(f, buf[f])), CellsIn(InHand(f)))
  BY <1>2, <1>5 DEF AllBelow
<1>10. QED BY <1>1, <1>6, <1>7, <1>8, <1>9

(* A flow that a step leaves as it is. *)
LEMMA LossSame ==
  ASSUME NEW f \in Flows, LossFlow(f), InHand(f)' = InHand(f),
         buf'[f] = buf[f], missing'[f] = missing[f], held'[f] = held[f], sent'[f] = sent[f],
         broken'[f] = broken[f], lost'[f] = lost[f],
         pc'[f] = "running" => pc[f] = "running",
         link[f] = "closed" => link'[f] = "closed"
  PROVE  LossFlow(f)'
<1>1. Pending(f)' = Pending(f) /\ (Known(f)' <=> Known(f)) /\ Edge(f)' = Edge(f)
  BY DEF Pending, Known, Edge
<1>2. Line(f)'
  BY <1>1 DEF LossFlow, Line
<1>3. Joined(f)'
  BY <1>1 DEF LossFlow, Joined
<1>4. Paid(f)'
  BY <1>1 DEF LossFlow, Paid
<1>5. QED BY <1>2, <1>3, <1>4 DEF LossFlow

(* Nothing is held. *)
LEMMA EmptyLine ==
  ASSUME NEW f \in Flows, held'[f] = <<>>, ~Known(f)', sent'[f] \in Nat
  PROVE  Line(f)'
<1>1. CellsIn(held'[f]) = {}
  BY RngEmpty
<1>2. sent'[f] + 1 \in 1..sent'[f] + 1 /\ (sent'[f] + 1)..sent'[f] = {}
  OBVIOUS
<1>3. QED BY <1>1, <1>2 DEF Line

(* A buffer in which a Peek waits for more bytes has one cell at most. *)
LEMMA OneCell ==
  ASSUME NEW f \in Flows, NEW b \in Seq(1..Size(f)), Len(b) < HeaderLength
  PROVE  Rng(b) = {} \/ \E c \in 1..Size(f) : Rng(b) = {c}
<1>1. Len(b) \in Nat /\ DOMAIN b = 1..Len(b) /\ (Len(b) = 0 \/ Len(b) = 1)
  <2>1. Len(b) \in Nat /\ DOMAIN b = 1..Len(b)
    OBVIOUS
  <2>2. QED BY <2>1 DEF HeaderLength
<1>2. CASE Len(b) = 0
  BY <1>1, <1>2 DEF Rng
<1>3. CASE Len(b) = 1
  <2>1. 1 \in 1..Len(b) /\ DOMAIN b = {1}
    BY <1>1, <1>3
  <2>2. b[1] \in 1..Size(f)
    BY <2>1, ElementOfSeq, Zenon
  <2>3. Rng(b) = {b[1]}
    BY <2>1 DEF Rng
  <2>4. QED BY <2>2, <2>3
<1>4. QED BY <1>1, <1>2, <1>3

(* The segments handed over follow on what run has left, unless a segment  *)
(* is given up for them.                                                   *)
LEMMA LossHandOver ==
  ASSUME LossInv, OrderInv', NEW f \in Flows, at # "await", at # "offer",
         at' = "offer", flow' = f, missing'[f] = Nothing, held'[f] = <<>>,
         UNCHANGED <<current, broken>>,
         \/ buf'[f] = <<>>
         \/ pc'[f] = pc[f] /\ buf'[f] = buf[f] /\ link[f] # "closed",
         NEW a \in Nat, CellsIn(batch') = a..sent'[f], a <= sent'[f],
         \/ lost'[f] = lost[f] + 1
         \/ lost'[f] = lost[f] /\ (missing[f] = Unknown \/ Edge(f) + 1 = a)
  PROVE  LossFlow(f)'
<1> DEFINE S == Rng(Synced(f, buf'[f]))
<1>1. /\ TypeOK /\ TypeOK' /\ OrderInv /\ PendingInv /\ LossFlow(f)
      /\ sent'[f] \in Nat /\ lost[f] \in Nat /\ lost'[f] \in Nat /\ broken[f] \in Nat
      /\ buf[f] \in Seq(1..Size(f)) /\ Size(f) \in Nat
  <2>1. TypeOK /\ TypeOK' /\ OrderInv /\ PendingInv /\ LossFlow(f)
    BY DEF LossInv, OrderInv, BaseInv
  <2>2. sent'[f] \in Nat /\ lost[f] \in Nat /\ lost'[f] \in Nat
    BY <2>1, FrameEndsType DEF TypeOK, NetworkType
  <2>3. broken[f] \in Nat
    BY <2>1 DEF TypeOK, OutputType
  <2>4. buf[f] \in Seq(1..Size(f)) /\ Size(f) \in Nat
    BY <2>1, FrameEndsType DEF TypeOK, ReaderType
  <2>5. QED BY <2>1, <2>2, <2>3, <2>4
<1>2. broken'[f] = broken[f] /\ broken[f] <= lost[f] /\ broken'[f] <= lost'[f]
  BY <1>1 DEF LossFlow, Paid
<1>3. Pending(f)' = S \cup a..sent'[f]
  BY DEF Pending, InHand
<1>4. ~Known(f)' /\ Edge(f)' = sent'[f] /\ sent'[f] \in Pending(f)'
  BY <1>1, <1>3 DEF Known, Edge
<1>5. Joined(f)'
  <2>1. Nothing # Unknown
    BY Distinct
  <2>2. missing'[f] # Unknown
    BY <2>1
  <2>3. QED BY <1>4, <2>2 DEF Joined
<1>6. Line(f)'
  BY <1>1, <1>4, EmptyLine
<1>7. ASSUME pc'[f] = "running"
      PROVE  broken'[f] + Cardinality(Jumps(Pending(f)')) <= lost'[f]
  <2>1. CASE buf'[f] = <<>>
    <3>1. S = {}
      BY <2>1, SyncedEmpty, RngEmpty
    <3>2. Cardinality(Jumps(S \cup a..sent'[f])) = 0
      BY <1>1, <3>1, JumpsInterval
    <3>3. QED BY <1>1, <1>2, <1>3, <3>2
  <2>2. CASE pc'[f] = pc[f] /\ buf'[f] = buf[f] /\ link[f] # "closed"
    <3>1. InHand(f) = <<>> /\ Settled(f)
      BY <1>1, NothingInHand DEF PendingInv, Synchronous, Consuming
    <3>2. S = Pending(f)
      BY <2>2, <3>1, RngEmpty DEF Pending
    <3>3. Synced(f, buf[f]) \in Seq(1..Size(f)) /\ Len(Synced(f, buf[f])) < HeaderLength
      BY <1>1, <1>7, <2>2, <3>1, SyncedType DEF Settled, NeedsMore
    <3>4. S = {} \/ \E c \in 1..Size(f) : S = {c}
      BY <2>2, <3>3, OneCell
    <3>5. AllBelow(S, a..sent'[f])
      <4>1. FlowInv(f)' /\ InHand(f)' = batch'
        BY DEF OrderInv, InHand
      <4>2. AllBelow(Rng(buf'[f]), CellsIn(batch')) /\ Increasing(buf'[f])
        BY <4>1 DEF FlowInv, InChain, Chain
      <4>3. S \subseteq Rng(buf'[f])
        BY <1>1, <2>2, <4>2, SyncedSplit
      <4>4. QED BY <4>2, <4>3 DEF AllBelow
    <3>6. \A c \in S : c < a
      BY <1>1, <3>5 DEF AllBelow
    <3>7. S = {} \/ \E c \in Nat : S = {c} /\ c < a
      BY <1>1, <3>4, <3>6
    <3> HIDE DEF S
    <3>8. S # {} => missing[f] # Unknown /\ Edge(f) \in S
      BY <1>1, <1>7, <2>2, <3>2 DEF LossFlow, Joined
    <3>9. /\ S = {} \/ (a # 0 /\ a - 1 \in S) => Cardinality(Jumps(S \cup a..sent'[f])) = 0
          /\ Cardinality(Jumps(S \cup a..sent'[f])) <= 1
          /\ Cardinality(Jumps(S \cup a..sent'[f])) \in Nat
      BY <1>1, <3>7, JumpsInterval
    <3>10. CASE lost'[f] = lost[f] + 1
      <4>1. \A x, y, z, k \in Nat : x <= y /\ z = y + 1 /\ k <= 1 => x + k <= z
        OBVIOUS
      <4>2. Cardinality(Jumps(Pending(f)')) \in Nat /\ Cardinality(Jumps(Pending(f)')) <= 1
        BY <1>3, <3>9
      <4>3. /\ broken'[f] \in Nat /\ lost[f] \in Nat /\ lost'[f] \in Nat
            /\ broken'[f] <= lost[f]
        BY <1>1, <1>2
      <4>4. QED BY <3>10, <4>1, <4>2, <4>3
    <3>11. CASE lost'[f] = lost[f] /\ (missing[f] = Unknown \/ Edge(f) + 1 = a)
      <4>1. Edge(f) \in Nat
        BY <1>1, PendingType
      <4>2. S = {} \/ (a # 0 /\ a - 1 \in S)
        BY <3>8, <3>11, <4>1
      <4>3. QED BY <1>1, <1>2, <1>3, <3>9, <4>2
    <3>12. QED BY <3>10, <3>11
  <2>3. QED BY <2>1, <2>2
<1>8. QED BY <1>2, <1>5, <1>6, <1>7 DEF LossFlow, Paid
(* A step of run that passes bytes on or drops the first of them.  It may  *)
(* queue a broken packet with a jump in it.                                *)
LEMMA LossShrink ==
  ASSUME LossInv, NEW f \in Flows, NEW P, P = Pending(f)', P \in SUBSET Pending(f),
         AllBelow(Pending(f) \ P, P),
         sent'[f] = sent[f], missing'[f] = missing[f], held'[f] = held[f], lost'[f] = lost[f],
         link'[f] = link[f], pc[f] = "running", broken'[f] \in Nat,
         \/ broken'[f] = broken[f]
         \/ broken'[f] = broken[f] + 1 /\ \E j \in Jumps(Pending(f)) : j \notin P
  PROVE  LossFlow(f)'
<1>1. OrderInv /\ LossFlow(f) /\ TypeOK /\ broken[f] \in Nat /\ lost[f] \in Nat
  BY DEF LossInv, OrderInv, BaseInv, TypeOK, NetworkType, OutputType
<1>2. (Known(f)' <=> Known(f)) /\ Edge(f)' = Edge(f)
  BY DEF Known, Edge
<1>3. Line(f)'
  BY <1>1, <1>2 DEF LossFlow, Line
<1>4. Joined(f)'
  <2> SUFFICES ASSUME link[f] # "closed", P # {}
      PROVE  missing[f] # Unknown /\ Edge(f) \in P
    BY <1>2 DEF Joined
  <2>1. PICK q \in P : q <= Edge(f) /\ q \in Nat
    BY <1>1, PendingType
  <2>2. missing[f] # Unknown /\ Edge(f) \in Pending(f) /\ Edge(f) \in Nat
    BY <1>1, <2>1, PendingType DEF LossFlow, Joined
  <2>3. Edge(f) \notin P => Edge(f) < q
    BY <2>1, <2>2 DEF AllBelow
  <2>4. QED BY <2>1, <2>2, <2>3
<1>5. Paid(f)'
  <2>1. /\ Size(f) \in Nat /\ Pending(f) \in SUBSET (1..Size(f)) /\ P \in SUBSET (1..Size(f))
    BY <1>1, PendingType
  <2>2. /\ Cardinality(Jumps(P)) \in Nat /\ Cardinality(Jumps(Pending(f))) \in Nat
        /\ Cardinality(Jumps(P)) <= Cardinality(Jumps(Pending(f)))
        /\ \A j \in Jumps(Pending(f)) \ P :
             Cardinality(Jumps(P)) + 1 <= Cardinality(Jumps(Pending(f)))
    BY <2>1, JumpsType, JumpsShrink
  <2>3. broken[f] + Cardinality(Jumps(Pending(f))) <= lost[f]
    BY <1>1 DEF LossFlow, Paid
  <2>4. broken'[f] + Cardinality(Jumps(P)) <= lost[f]
    <3>1. CASE broken'[f] = broken[f]
      BY <1>1, <2>2, <2>3, <3>1
    <3>2. CASE broken'[f] = broken[f] + 1 /\ \E j \in Jumps(Pending(f)) : j \notin P
      <4>1. Cardinality(Jumps(P)) + 1 <= Cardinality(Jumps(Pending(f)))
        BY <2>2, <3>2
      <4>2. QED BY <1>1, <2>2, <2>3, <3>2, <4>1
    <3>3. QED BY <3>1, <3>2
  <2>5. broken'[f] <= lost[f]
    BY <1>1, <2>2, <2>4
  <2>6. QED BY <2>4, <2>5 DEF Paid
<1>6. QED BY <1>3, <1>4, <1>5 DEF LossFlow

LEMMA LossFill ==
  ASSUME LossInv, OrderInv', NEW f \in Flows, Fill(f)
  PROVE  LossFlow(f)'
<1>1. /\ TypeOK /\ PendingInv /\ OrderInv /\ FlowInv(f) /\ FlowInv(f)'
      /\ buf[f] \in Seq(1..Size(f)) /\ current[f] \in Seq(Segments(f)) /\ Size(f) \in Nat
      /\ buf'[f] \in Seq(1..Size(f)) /\ broken[f] \in Nat
  <2>1. OrderInv /\ TypeOK /\ TypeOK' /\ PendingInv /\ FlowInv(f) /\ FlowInv(f)'
    BY DEF LossInv, OrderInv, BaseInv
  <2>2. QED BY <2>1, FrameEndsType DEF TypeOK, ReaderType, OutputType
<1> DEFINE b == Synced(f, buf[f])
           s == Head(current[f])
           q == Tail(current[f])
<1>2. /\ current[f] # <<>> /\ pc[f] = "running" /\ NeedsMore(f)
      /\ buf'[f] = b \o Cells(s) /\ current'[f] = q
      /\ UNCHANGED <<sent, missing, held, lost, at, flow, batch, broken, link>>
  BY <1>1 DEF Fill, network, capture, output, TypeOK, ReaderType
<1>3. InHand(f) = current[f] /\ InHand(f)' = q
  <2>1. at = "await"
    BY <1>1, <1>2 DEF PendingInv, Synchronous, Consuming, Settled
  <2>2. QED BY <1>2, <2>1 DEF InHand
<1>4. /\ s \in Segments(f) /\ CellsIn(current[f]) = CellsOf(s) \cup CellsIn(q)
      /\ Rng(Cells(s)) = CellsOf(s) /\ Cells(s) \in Seq(1..Size(f)) /\ b \in Seq(1..Size(f))
  BY <1>1, <1>2, CellsInSplit, CellsIncrease, CellsType, SyncedType
<1> HIDE DEF b, s, q
<1>5. Rng(buf'[f]) = Rng(b) \cup CellsOf(s)
  BY <1>1, <1>2, <1>4, RngConcat
<1>6. Pending(f) = Rng(buf'[f]) \cup CellsIn(q)
  BY <1>3, <1>4, <1>5 DEF Pending, b
<1>7. Pending(f)' = Rng(Synced(f, buf'[f])) \cup CellsIn(q)
  BY <1>3 DEF Pending
<1>8. Increasing(buf'[f]) /\ AllBelow(Rng(buf'[f]), CellsIn(q))
  BY <1>1, <1>3 DEF FlowInv, InChain, Chain
<1>9. /\ Rng(Synced(f, buf'[f])) \subseteq Rng(buf'[f])
      /\ \A c \in Rng(buf'[f]) \ Rng(Synced(f, buf'[f])) :
            \A k \in Rng(Synced(f, buf'[f])) : c < k
  BY <1>1, <1>8, SyncedSplit
<1>10. /\ Pending(f)' \in SUBSET Pending(f)
       /\ AllBelow(Pending(f) \ Pending(f)', Pending(f)')
  BY <1>6, <1>7, <1>8, <1>9 DEF AllBelow
<1>11. broken'[f] = broken[f] /\ broken'[f] \in Nat
  BY <1>1, <1>2
<1>12. QED BY <1>2, <1>10, <1>11, LossShrink

LEMMA MagicIsIn ==
  \A f \in Flows : \A k \in Frames(f) :
    First(f, k) \in First(f, k)..Last(f, k) /\ First(f, k) \in Nat
BY FrameEndsType

(* Frames that begin with the same cell are the same. *)
LEMMA SameFirst ==
  \A f \in Flows : \A j, k \in Frames(f) : First(f, j) = First(f, k) => j = k
BY MagicIsIn, FrameUnique

(* The cells of a frame are the body of that frame alone. *)
LEMMA NumberOfFrame ==
  ASSUME NEW f \in Flows, NEW n \in Frames(f), NEW d, d.flow = f, d.body = FrameCells(f, n)
  PROVE  Number(d) = n
<1> DEFINE whole == {k \in Frames(d.flow) : d.body = FrameCells(d.flow, k)}
<1>1. ASSUME NEW k \in Frames(f)
      PROVE  1 \in DOMAIN FrameCells(f, k) /\ FrameCells(f, k)[1] = First(f, k)
  <2>1. First(f, k) \in Nat /\ Last(f, k) \in Nat /\ First(f, k) <= Last(f, k)
    BY FrameEndsType
  <2>2. QED BY <2>1 DEF FrameCells, Cells
<1>2. ASSUME NEW k \in whole PROVE k = n
  <2>1. k \in Frames(f) /\ First(f, k) = First(f, n)
    BY <1>1
  <2>2. QED BY <2>1, SameFirst
<1>3. n \in whole
  OBVIOUS
<1>4. QED BY <1>2, <1>3 DEF Number

(* A length that is read after a magic number that the next cell follows  *)
(* is that of the frame.                                                   *)
LEMMA LengthRead ==
  ASSUME NEW f \in Flows, NEW n \in Frames(f), NEW b, b[1] = First(f, n), b[2] = b[1] + 1
  PROVE  LengthField(f, b) = {Length(f, n)}
<1>1. b[2] = First(f, n) + 1 /\ First(f, n) \in Nat
  BY MagicIsIn
<1>2. n \in LengthOwner(f, b[2])
  BY <1>1 DEF LengthOwner
<1>3. ASSUME NEW k \in LengthOwner(f, b[2]) PROVE k = n
  <2>1. k \in Frames(f) /\ First(f, n) + 1 = First(f, k) + 1
    BY <1>1 DEF LengthOwner
  <2>2. First(f, k) \in Nat
    BY <2>1, MagicIsIn
  <2>3. First(f, k) = First(f, n)
    BY <1>1, <2>1, <2>2
  <2>4. QED BY <2>1, <2>3, SameFirst
<1>4. QED BY <1>2, <1>3 DEF LengthField

(* Consecutive cells from a magic number on, no more than its frame has.   *)
LEMMA Consecutive ==
  ASSUME NEW f \in Flows, NEW n \in Frames(f), NEW p \in Seq(1..Size(f)),
         Len(p) <= Length(f, n), p[1] = First(f, n),
         \A i \in 1..Len(p) - 1 : p[i] \in First(f, n)..Last(f, n) - 1 => p[i + 1] = p[i] + 1
  PROVE  \A i \in 1..Len(p) : p[i] = First(f, n) + i - 1
<1>1. /\ First(f, n) \in Nat /\ Last(f, n) \in Nat /\ Length(f, n) = Last(f, n) - First(f, n) + 1
      /\ Len(p) \in Nat
  BY FrameEndsType
<1> DEFINE T == {i \in Nat : i + 1 <= Len(p) => p[i + 1] = First(f, n) + i}
<1>2. 0 \in T
  BY <1>1
<1>3. ASSUME NEW i \in Nat, i \in T PROVE i + 1 \in T
  <2> SUFFICES ASSUME (i + 1) + 1 <= Len(p) PROVE p[(i + 1) + 1] = First(f, n) + (i + 1)
    OBVIOUS
  <2>1. i + 1 \in 1..Len(p) - 1 /\ i + 1 <= Len(p)
    BY <1>1
  <2>2. p[i + 1] = First(f, n) + i
    BY <1>3, <2>1
  <2>3. p[i + 1] \in First(f, n)..Last(f, n) - 1
    BY <1>1, <2>2
  <2>4. p[(i + 1) + 1] = p[i + 1] + 1
    BY <2>1, <2>3
  <2>5. QED BY <1>1, <2>2, <2>4
<1> HIDE DEF T
<1>4. Nat \subseteq T
  BY <1>2, <1>3, NatInd
<1>5. ASSUME NEW i \in 1..Len(p) PROVE p[i] = First(f, n) + i - 1
  <2>1. i - 1 \in T /\ i - 1 \in Nat /\ (i - 1) + 1 = i /\ i <= Len(p)
    BY <1>1, <1>4
  <2>2. p[i] = First(f, n) + (i - 1)
    BY <2>1 DEF T
  <2>3. QED BY <1>1, <2>2
<1>6. QED BY <1>5

(* As many of them as its frame is long are the frame. *)
LEMMA FrameRead ==
  ASSUME NEW f \in Flows, NEW n \in Frames(f), NEW p \in Seq(1..Size(f)),
         Len(p) = Length(f, n), p[1] = First(f, n),
         \A i \in 1..Len(p) - 1 : p[i] \in First(f, n)..Last(f, n) - 1 => p[i + 1] = p[i] + 1
  PROVE  p = FrameCells(f, n)
<1>1. /\ First(f, n) \in Nat /\ Last(f, n) \in Nat /\ Length(f, n) = Last(f, n) - First(f, n) + 1
      /\ Len(p) \in Nat
  BY FrameEndsType
<1>2. Len(p) <= Length(f, n)
  BY <1>1
<1>3. \A i \in 1..Len(p) : p[i] = First(f, n) + i - 1
  BY <1>2, Consecutive
<1>4. FrameCells(f, n) = [i \in 1..Len(p) |-> First(f, n) + i - 1]
  BY <1>1 DEF FrameCells, Cells
<1>5. p = [i \in 1..Len(p) |-> p[i]]
  OBVIOUS
<1>6. QED BY <1>3, <1>4, <1>5

(* A packet that is no frame holds a cell that the next one does not       *)
(* follow.                                                                 *)
LEMMA BrokenHasJump ==
  ASSUME NEW f \in Flows, NEW b \in Seq(1..Size(f)), Len(b) >= HeaderLength,
         b[1] \in Magic(f), NEW length \in LengthField(f, b), length \in 1..Len(b),
         NEW p \in Seq(1..Size(f)), Len(p) = length, \A i \in 1..length : p[i] = b[i],
         Number([flow |-> f, body |-> p]) = 0
  PROVE  \E i \in 1..length : i < Len(b) /\ b[i + 1] # b[i] + 1
<1> SUFFICES ASSUME \A i \in 1..length : i < Len(b) => b[i + 1] = b[i] + 1
    PROVE FALSE
  OBVIOUS
<1>1. /\ Len(b) \in Nat /\ length \in Nat /\ 1 \in 1..length /\ 1 < Len(b)
      /\ Size(f) \in Nat
  BY FrameEndsType DEF HeaderLength
<1>2. PICK n \in Frames(f) : b[1] = First(f, n)
  BY DEF Magic
<1>3. b[2] = b[1] + 1
  BY <1>1
<1>4. length = Length(f, n)
  BY <1>2, <1>3, LengthRead
<1>5. p[1] = First(f, n)
  BY <1>1, <1>2
<1>6. \A i \in 1..Len(p) - 1 : p[i + 1] = p[i] + 1
  <2> SUFFICES ASSUME NEW i \in 1..length - 1 PROVE p[i + 1] = p[i] + 1
    OBVIOUS
  <2>1. i \in 1..length /\ i + 1 \in 1..length /\ i < Len(b)
    BY <1>1
  <2>2. QED BY <2>1
<1>7. p = FrameCells(f, n)
  BY <1>4, <1>5, <1>6, FrameRead
<1>8. Number([flow |-> f, body |-> p]) = n
  BY <1>7, NumberOfFrame
<1>9. QED BY <1>8, FrameEndsType

(* A cell of the buffer that the next one does not follow is a jump. *)
LEMMA JumpInBuffer ==
  ASSUME OrderInv, NEW f \in Flows, NEW i \in 1..Len(Synced(f, buf[f])) - 1,
         Synced(f, buf[f])[i + 1] # Synced(f, buf[f])[i] + 1
  PROVE  /\ Synced(f, buf[f])[i] \in Jumps(Pending(f))
         /\ Synced(f, buf[f])[i] \in Nat
<1> DEFINE b == Synced(f, buf[f])
           H == CellsIn(InHand(f))
<1>1. /\ FlowInv(f) /\ buf[f] \in Seq(1..Size(f)) /\ Size(f) \in Nat
  BY FrameEndsType DEF OrderInv, BaseInv, TypeOK, ReaderType
<1>2. b \in Seq(1..Size(f)) /\ Increasing(b)
  BY <1>1, SyncedSplit DEF FlowInv
<1>3. AllBelow(Rng(b), H)
  BY PendingType
<1>4. Pending(f) = Rng(b) \cup H
  BY DEF Pending
<1>5. b[i + 1] # b[i] + 1 /\ i \in 1..Len(b) - 1
  OBVIOUS
<1> HIDE DEF b, H
<1>6. /\ i \in 1..Len(b) /\ i + 1 \in 1..Len(b) /\ i \in 1..(i + 1) - 1
      /\ DOMAIN b = 1..Len(b) /\ Len(b) \in Nat
  BY <1>2, <1>5
<1>7. b[i] \in Nat /\ b[i + 1] \in Nat /\ b[i] < b[i + 1]
  <2>1. b[i] \in 1..Size(f) /\ b[i + 1] \in 1..Size(f)
    BY <1>2, <1>6, ElementOfSeq
  <2>2. b[i] < b[i + 1]
    BY <1>2, <1>6 DEF Increasing
  <2>3. QED BY <1>1, <2>1, <2>2
<1>8. b[i] \in Rng(b) /\ b[i + 1] \in Rng(b)
  BY <1>6 DEF Rng
<1>9. b[i] + 1 \notin H
  BY <1>3, <1>7, <1>8 DEF AllBelow
<1>10. b[i] + 1 \notin Rng(b)
  <2> SUFFICES ASSUME NEW m \in 1..Len(b), b[m] = b[i] + 1 PROVE FALSE
    BY <1>6 DEF Rng
  <2>1. CASE m = i + 1
    BY <1>5, <2>1
  <2>2. CASE m <= i
    <3>1. m = i \/ m \in 1..i - 1
      BY <1>6, <2>2
    <3>2. b[m] = b[i] \/ b[m] < b[i]
      BY <1>2, <1>6, <3>1 DEF Increasing
    <3>3. QED BY <1>7, <3>2
  <2>3. CASE m > i + 1
    <3>1. i + 1 \in 1..m - 1
      BY <1>6, <2>3
    <3>2. b[i + 1] < b[m]
      BY <1>2, <1>6, <3>1 DEF Increasing
    <3>3. QED BY <1>7, <3>2
  <2>4. QED BY <1>6, <2>1, <2>2, <2>3
<1>11. b[i] \in Jumps(Pending(f))
  BY <1>4, <1>7, <1>8, <1>9, <1>10 DEF Jumps
<1>12. QED BY <1>7, <1>11 DEF b

LEMMA LossQueueFrame ==
  ASSUME LossInv, OrderInv', NEW f \in Flows, QueueFrame(f)
  PROVE  LossFlow(f)'
<1>1. /\ TypeOK /\ PendingInv /\ OrderInv /\ FlowInv(f) /\ FlowInv(f)'
      /\ buf[f] \in Seq(1..Size(f)) /\ Size(f) \in Nat /\ broken[f] \in Nat
      /\ buf'[f] \in Seq(1..Size(f)) /\ DOMAIN broken = Flows
  <2>1. OrderInv /\ TypeOK /\ TypeOK' /\ PendingInv /\ FlowInv(f) /\ FlowInv(f)'
    BY DEF LossInv, OrderInv, BaseInv
  <2>2. QED BY <2>1, FrameEndsType DEF TypeOK, ReaderType, OutputType
<1> DEFINE b == Synced(f, buf[f])
<1>2. PICK length \in Nat :
        /\ length \in LengthField(f, b) /\ length <= Len(b) /\ Len(b) >= HeaderLength
        /\ Len(b) \in Nat /\ pc[f] = "running" /\ b \in Seq(1..Size(f))
        /\ Read(b, length) \in Seq(1..Size(f)) /\ Len(Read(b, length)) = length
        /\ \A i \in 1..length : Read(b, length)[i] = b[i]
        /\ Rest(b, length) \in Seq(1..Size(f)) /\ Len(Rest(b, length)) = Len(b) - length
        /\ \A i \in 1..Len(b) - length : Rest(b, length)[i] = b[length + i]
        /\ buf' = [buf EXCEPT ![f] = Rest(b, length)]
        /\ broken' = [broken EXCEPT ![f] =
             IF Read(b, length) # <<>> /\ Number([flow |-> f, body |-> Read(b, length)]) = 0
             THEN @ + 1 ELSE @]
  BY <1>1, QueueFrameStep, Zenon
<1> DEFINE p == Read(b, length)
           q == Rest(b, length)
           H == CellsIn(InHand(f))
           P == Pending(f)'
<1>3. /\ UNCHANGED <<sent, missing, held, lost, at, flow, batch, current, link, pc>>
      /\ InHand(f)' = InHand(f)
  BY DEF QueueFrame, network, capture, InHand
<1>4. Len(b) >= 1 /\ b # <<>> /\ b[1] \in Magic(f)
  <2>1. Len(b) >= 1 /\ b # <<>>
    BY <1>2 DEF HeaderLength
  <2>2. QED BY <1>1, <2>1, SyncedType
<1>5. b \in Seq(1..Size(f)) /\ Increasing(b)
  BY <1>1, SyncedSplit DEF FlowInv
<1>6. buf'[f] = q
  BY <1>1, <1>2 DEF TypeOK, ReaderType
<1>7. Pending(f) = Rng(b) \cup H
  BY DEF Pending
<1>8. P = Rng(Synced(f, q)) \cup H
  BY <1>3, <1>6 DEF Pending
<1>9. AllBelow(Rng(b), H) /\ AllBelow(Rng(q), H) /\ Increasing(q)
  <2>1. AllBelow(Rng(b), H)
    BY <1>1, PendingType
  <2>2. AllBelow(Rng(q), H) /\ Increasing(q)
    BY <1>1, <1>3, <1>6 DEF FlowInv, InChain, Chain
  <2>3. QED BY <2>1, <2>2
<1>10. broken'[f] = IF p # <<>> /\ Number([flow |-> f, body |-> p]) = 0
                    THEN broken[f] + 1 ELSE broken[f]
  BY <1>1, <1>2
<1>11. /\ length \in 0..Len(b)
       /\ p \in Seq(1..Size(f)) /\ Len(p) = length /\ \A i \in 1..length : p[i] = b[i]
       /\ q \in Seq(1..Size(f)) /\ Len(q) = Len(b) - length
       /\ \A i \in 1..Len(b) - length : q[i] = b[length + i]
  BY <1>2
<1>12. length \in LengthField(f, b) /\ Len(b) >= HeaderLength /\ Len(b) \in Nat
  BY <1>2
<1> HIDE DEF b, p, q, H, P
<1>13. Rng(b) = Rng(p) \cup Rng(q) /\ AllBelow(Rng(p), Rng(q))
  <2>1. Parts(b, length, p, q)
    BY <1>11 DEF Parts
  <2>2. QED BY <1>1, <1>5, <1>11, <2>1, IncreasingSplit
<1>14. /\ Rng(Synced(f, q)) \subseteq Rng(q)
       /\ \A c \in Rng(q) \ Rng(Synced(f, q)) : \A k \in Rng(Synced(f, q)) : c < k
  BY <1>9, <1>11, SyncedSplit
<1>15. P \in SUBSET Pending(f) /\ AllBelow(Pending(f) \ P, P)
  BY <1>7, <1>8, <1>9, <1>13, <1>14 DEF AllBelow
<1>16. ASSUME p # <<>>, Number([flow |-> f, body |-> p]) = 0
       PROVE  \E j \in Jumps(Pending(f)) : j \notin P
  <2>1. length \in 1..Len(b)
    <3>1. Len(p) # 0
      BY <1>11, <1>16
    <3>2. QED BY <1>11, <1>12, <3>1
  <2>2. PICK i \in 1..length : i < Len(b) /\ b[i + 1] # b[i] + 1
    <3>1. /\ b \in Seq(1..Size(f)) /\ Len(b) >= HeaderLength /\ b[1] \in Magic(f)
          /\ length \in LengthField(f, b) /\ p \in Seq(1..Size(f)) /\ Len(p) = length
          /\ \A i \in 1..length : p[i] = b[i]
      <4>1. Len(b) # 0
        BY <1>12 DEF HeaderLength
      <4>2. QED BY <1>4, <1>5, <1>11, <1>12, <4>1
    <3>2. QED BY <1>16, <2>1, <3>1, BrokenHasJump, Zenon
  <2>3. i \in 1..Len(b) - 1 /\ DOMAIN p = 1..length
    BY <1>11, <1>12, <2>1, <2>2
  <2>4. b[i] \in Jumps(Pending(f)) /\ b[i] \in Nat
    BY <1>1, <2>2, <2>3, JumpInBuffer DEF b
  <2>5. b[i] \in Rng(p)
    <3>1. p[i] = b[i] /\ i \in DOMAIN p
      BY <1>11, <2>2, <2>3
    <3>2. QED BY <3>1 DEF Rng
  <2>6. b[i] \notin P
    BY <1>8, <1>9, <1>13, <1>14, <2>4, <2>5 DEF AllBelow
  <2>7. QED BY <2>4, <2>6
<1>17. /\ broken'[f] \in Nat
       /\ \/ broken'[f] = broken[f]
          \/ broken'[f] = broken[f] + 1 /\ \E j \in Jumps(Pending(f)) : j \notin P
  BY <1>1, <1>10, <1>16
<1>18. QED BY <1>2, <1>3, <1>15, <1>17, LossShrink DEF P
(* What is held and the segment after it. *)
LEMMA LineAppend ==
  ASSUME TypeOK, NEW f \in Flows, NEW a \in 1..sent[f] + 1, CellsIn(held[f]) = a..sent[f],
         NEW n \in Ends(f), sent[f] < n
  PROVE  CellsIn(Append(held[f], Segment(f, n))) = a..n /\ a <= n /\ n \in Nat /\ a \in Nat
<1>1. sent[f] \in Nat /\ held[f] \in Seq(Segments(f))
  BY DEF TypeOK, NetworkType
<1>2. /\ Segment(f, n) \in Segments(f) /\ n \in Nat
      /\ Segment(f, n).first = sent[f] + 1 /\ Segment(f, n).last = n
  BY <1>1, NextSegment
<1>3. CellsIn(Append(held[f], Segment(f, n))) = (a..sent[f]) \cup ((sent[f] + 1)..n)
  BY <1>1, <1>2, CellsInAppend DEF CellsOf
<1>4. QED BY <1>1, <1>2, <1>3

LEMMA IntervalJoin ==
  \A x, y, z \in Nat : x <= y /\ y <= z => (x..y) \cup ((y + 1)..z) = x..z
OBVIOUS

LEMMA LossAssemble ==
  ASSUME LossInv, OrderInv', NEW f \in Flows, Receive(f) \/ ReceiveAhead(f) \/ ReceiveLate(f)
  PROVE  \A g \in Flows : LossFlow(g)'
<1>1. /\ OrderInv /\ BaseInv /\ TypeOK /\ PendingInv /\ NothingHeld
      /\ \A g \in Flows : LossFlow(g)
  BY DEF LossInv, OrderInv, BaseInv
<1>2. NewReader(f) /\ at = "select" /\ UNCHANGED broken
  BY <1>1, ReceiveKeeps, ReceiveAheadKeeps, ReceiveLateKeeps
     DEF Receive, ReceiveAhead, ReceiveLate, output
<1>3. /\ UNCHANGED <<current, broken>>
      /\ \/ buf'[f] = <<>>
         \/ pc'[f] = pc[f] /\ buf'[f] = buf[f] /\ link[f] # "closed"
      /\ \A g \in Flows \ {f} : /\ link'[g] = link[g] /\ pc'[g] = pc[g] /\ buf'[g] = buf[g]
  BY <1>2 DEF NewReader
<1>4. /\ sent[f] \in Nat /\ DOMAIN sent = Flows /\ DOMAIN missing = Flows /\ DOMAIN held = Flows
      /\ DOMAIN lost = Flows /\ lost[f] \in Nat
  BY <1>1 DEF TypeOK, NetworkType
<1>5. /\ \/ at' = "offer" /\ flow' = f
         \/ UNCHANGED <<at, flow, batch>>
      /\ \A g \in Flows \ {f} : /\ sent'[g] = sent[g] /\ missing'[g] = missing[g]
                                /\ held'[g] = held[g] /\ lost'[g] = lost[g]
  BY <1>4 DEF Receive, ReceiveAhead, ReceiveLate, Reassembled, GiveUp, capture
<1>6. ASSUME NEW g \in Flows \ {f} PROVE LossFlow(g)'
  <2>1. InHand(g)' = InHand(g)
    BY <1>2, <1>3, <1>5 DEF InHand
  <2>2. QED BY <1>1, <1>3, <1>5, <2>1, LossSame
<1>7. PICK a \in 1..sent[f] + 1 :
        CellsIn(held[f]) = a..sent[f] /\ (Known(f) => a = missing[f].last + 1)
  BY <1>1 DEF LossFlow, Line
<1>8. CASE Receive(f)
  <2>1. PICK n \in Ends(f) :
          /\ sent[f] < n /\ sent' = [sent EXCEPT ![f] = n] /\ missing[f] = Nothing
          /\ at' = "offer" /\ flow' = f /\ batch' = <<Segment(f, n)>>
          /\ UNCHANGED <<missing, held, lost>>
    BY <1>8 DEF Receive, Reassembled
  <2>2. /\ Segment(f, n) \in Segments(f) /\ n \in Nat /\ sent'[f] = n
        /\ Segment(f, n).first = sent[f] + 1 /\ Segment(f, n).last = n
    BY <1>4, <2>1, NextSegment
  <2>3. CellsIn(batch') = (sent[f] + 1)..sent'[f] /\ sent[f] + 1 <= sent'[f]
    BY <1>4, <2>1, <2>2, CellsInOne DEF CellsOf
  <2>4. Edge(f) + 1 = sent[f] + 1 /\ sent[f] + 1 \in Nat
    BY <1>4, <2>1 DEF Edge, Known
  <2>5. held'[f] = <<>> /\ missing'[f] = Nothing /\ lost'[f] = lost[f]
    BY <1>1, <2>1 DEF NothingHeld
  <2>6. LossFlow(f)'
    BY <1>2, <1>3, <2>1, <2>3, <2>4, <2>5, LossHandOver
  <2>7. QED BY <1>6, <2>6
<1>9. CASE ReceiveLate(f)
  <2>1. /\ Known(f) /\ at' = "offer" /\ flow' = f /\ batch' = <<missing[f]>> \o held[f]
        /\ missing'[f] = Nothing /\ held'[f] = <<>> /\ sent'[f] = sent[f] /\ lost'[f] = lost[f]
    BY <1>4, <1>9 DEF ReceiveLate, Reassembled, Known
  <2>2. /\ missing[f] \in Segments(f) /\ held[f] \in Seq(Segments(f))
        /\ missing[f].first \in Nat \ {0} /\ missing[f].last \in Nat
        /\ missing[f].first <= missing[f].last
    <3>1. missing[f] \in Segments(f) /\ held[f] \in Seq(Segments(f))
      BY <1>1, <2>1, WasToCome DEF TypeOK, NetworkType
    <3>2. missing[f].first \in 1..Size(f) /\ Size(f) \in Nat
      BY <3>1, CellsType, FrameEndsType
    <3>3. missing[f].first \in Nat \ {0}
      BY <3>2
    <3>4. QED BY <3>1, <3>3, SegmentType
  <2>3. missing[f].last <= sent[f]
    BY <1>1, <2>1 DEF OrderInv, FlowInv, KeptInOrder
  <2>4. CellsIn(batch') = (missing[f].first..missing[f].last) \cup ((missing[f].last + 1)..sent[f])
    BY <1>7, <2>1, <2>2, CellsInCons DEF CellsOf
  <2>5. CellsIn(batch') = missing[f].first..sent'[f] /\ missing[f].first <= sent'[f]
    <3>1. CellsIn(batch') = missing[f].first..sent[f]
      BY <1>4, <2>2, <2>3, <2>4, IntervalJoin
    <3>2. missing[f].first <= sent[f]
      BY <1>4, <2>2, <2>3
    <3>3. QED BY <2>1, <3>1, <3>2
  <2>6. Edge(f) + 1 = missing[f].first
    BY <2>1, <2>2 DEF Edge
  <2>7. LossFlow(f)'
    BY <1>2, <1>3, <2>1, <2>2, <2>5, <2>6, LossHandOver
  <2>8. QED BY <1>6, <2>7
<1>10. CASE ReceiveAhead(f)
  <2>1. PICK n \in Ends(f) :
          /\ sent[f] < n /\ sent' = [sent EXCEPT ![f] = n] /\ missing[f] # Nothing
          /\ \/ /\ held' = [held EXCEPT ![f] = Append(held[f], Segment(f, n))]
                /\ UNCHANGED <<missing, lost, capture>>
             \/ GiveUp(f) /\ Reassembled(f, Append(held[f], Segment(f, n)))
    BY <1>10 DEF ReceiveAhead
  <2>2. /\ CellsIn(Append(held[f], Segment(f, n))) = a..n /\ a <= n /\ n \in Nat /\ a \in Nat
        /\ sent'[f] = n
    BY <1>1, <1>4, <1>7, <2>1, LineAppend
  <2>3. CASE GiveUp(f) /\ Reassembled(f, Append(held[f], Segment(f, n)))
    <3>1. /\ at' = "offer" /\ flow' = f /\ batch' = Append(held[f], Segment(f, n))
          /\ missing'[f] = Nothing /\ held'[f] = <<>>
          /\ lost'[f] = lost[f] + 1 \/ (lost'[f] = lost[f] /\ missing[f] = Unknown)
      BY <1>4, <2>3 DEF GiveUp, Reassembled
    <3>2. CellsIn(batch') = a..sent'[f] /\ a <= sent'[f]
      BY <2>2, <3>1
    <3>3. LossFlow(f)'
      BY <1>2, <1>3, <2>2, <3>1, <3>2, LossHandOver
    <3>4. QED BY <1>6, <3>3
  <2>4. CASE /\ held' = [held EXCEPT ![f] = Append(held[f], Segment(f, n))]
             /\ UNCHANGED <<missing, lost, capture>>
    <3>1. /\ UNCHANGED <<missing, lost, at, flow, batch>>
          /\ held'[f] = Append(held[f], Segment(f, n))
      BY <1>4, <2>4 DEF capture
    <3>2. Known(f)' = Known(f)
      BY <3>1 DEF Known
    <3>3. Line(f)'
      <4>1. a \in 1..sent'[f] + 1
        BY <1>4, <2>1, <2>2
      <4>2. CellsIn(held'[f]) = a..sent'[f] /\ (Known(f)' => a = missing'[f].last + 1)
        BY <1>7, <2>2, <3>1, <3>2
      <4>3. QED BY <4>1, <4>2 DEF Line
    <3>4. InHand(f)' = InHand(f) /\ InHand(f) = <<>>
      BY <1>1, <1>2, <1>3, <3>1, NothingInHand DEF InHand
    <3>5. broken'[f] \in Nat /\ broken'[f] = broken[f] /\ lost'[f] = lost[f]
      BY <1>1, <1>3, <3>1 DEF TypeOK, OutputType
    <3>6. CASE buf'[f] = <<>>
      <4>1. Pending(f)' = {}
        BY <3>4, <3>6, SyncedEmpty, RngEmpty DEF Pending
      <4>2. Cardinality(Jumps({})) = 0
        <5>1. Jumps({}) = {}
          BY DEF Jumps
        <5>2. QED BY <5>1, FS_EmptySet
      <4>3. Joined(f)'
        BY <4>1 DEF Joined
      <4>4. Paid(f)'
        BY <1>1, <3>5, <4>1, <4>2 DEF LossFlow, Paid
      <4>5. QED BY <1>6, <3>3, <4>3, <4>4 DEF LossFlow
    <3>7. CASE pc'[f] = pc[f] /\ buf'[f] = buf[f] /\ link[f] # "closed"
      <4>1. Pending(f)' = Pending(f)
        BY <3>4, <3>7 DEF Pending
      <4>2. Joined(f)'
        <5> SUFFICES ASSUME pc[f] = "running", Pending(f) # {}
            PROVE  missing'[f] # Unknown /\ Edge(f)' \in Pending(f)
          BY <3>7, <4>1 DEF Joined
        <5>1. missing[f] # Unknown /\ Edge(f) \in Pending(f)
          BY <1>1, <3>7 DEF LossFlow, Joined
        <5>2. Known(f)
          BY <2>1, <5>1 DEF Known
        <5>3. Edge(f)' = Edge(f)
          BY <3>1, <3>2, <5>2 DEF Edge
        <5>4. QED BY <3>1, <5>1, <5>3
      <4>3. Paid(f)'
        BY <1>1, <3>5, <3>7, <4>1 DEF LossFlow, Paid
      <4>4. QED BY <1>6, <3>3, <4>2, <4>3 DEF LossFlow
    <3>8. QED BY <1>3, <3>6, <3>7
  <2>5. QED BY <2>1, <2>3, <2>4
<1>11. QED BY <1>8, <1>9, <1>10

(* Tick and FlushAll give a segment up, or FlushAll closes the link. *)
LEMMA LossHandHeld ==
  ASSUME LossInv, OrderInv', NEW f \in Flows, Tick(f) \/ FlushConnection(f)
  PROVE  \A g \in Flows : LossFlow(g)'
<1>1. /\ OrderInv /\ BaseInv /\ TypeOK /\ PendingInv /\ ClosedLink /\ NothingHeld
      /\ \A g \in Flows : LossFlow(g)
  BY DEF LossInv, OrderInv, BaseInv
<1>2. /\ at # "await" /\ at # "offer" /\ UNCHANGED <<sent, current, buf, pc, broken>>
  BY DEF Tick, FlushConnection, reader, output
<1>3. /\ sent[f] \in Nat /\ DOMAIN missing = Flows /\ DOMAIN held = Flows
      /\ DOMAIN lost = Flows /\ lost[f] \in Nat /\ DOMAIN link = Flows
      /\ held[f] \in Seq(Segments(f))
  BY <1>1 DEF TypeOK, NetworkType, ReaderType
<1>4. CASE held[f] # <<>> /\ GiveUp(f) /\ Reassembled(f, held[f]) /\ UNCHANGED link
  <2>1. /\ at' = "offer" /\ flow' = f /\ batch' = held[f]
        /\ missing'[f] = Nothing /\ held'[f] = <<>> /\ link[f] # "closed"
        /\ lost'[f] = lost[f] + 1 \/ (lost'[f] = lost[f] /\ missing[f] = Unknown)
        /\ \A g \in Flows \ {f} : /\ missing'[g] = missing[g] /\ held'[g] = held[g]
                                  /\ lost'[g] = lost[g] /\ link'[g] = link[g]
    BY <1>1, <1>3, <1>4 DEF GiveUp, Reassembled, ClosedLink
  <2>2. PICK a \in 1..sent[f] + 1 : CellsIn(held[f]) = a..sent[f]
    BY <1>1 DEF LossFlow, Line
  <2>3. a <= sent[f] /\ a \in Nat
    <3>1. Head(held[f]) \in Segments(f) /\ CellsOf(Head(held[f])) \subseteq CellsIn(held[f])
      BY <1>3, <1>4, CellsInSplit
    <3>2. Head(held[f]).first \in CellsOf(Head(held[f]))
      BY <3>1, SegmentType DEF CellsOf
    <3>3. Head(held[f]).first \in a..sent[f]
      BY <2>2, <3>1, <3>2
    <3>4. QED BY <1>3, <3>3
  <2>4. LossFlow(f)'
    BY <1>2, <2>1, <2>2, <2>3, LossHandOver
  <2>5. ASSUME NEW g \in Flows \ {f} PROVE LossFlow(g)'
    <3>1. InHand(g)' = InHand(g)
      BY <1>2, <2>1 DEF InHand
    <3>2. QED BY <1>1, <1>2, <2>1, <3>1, LossSame
  <2>6. QED BY <2>4, <2>5
<1>5. CASE /\ held[f] = <<>> /\ link' = [link EXCEPT ![f] = "closed"]
           /\ missing' = [missing EXCEPT ![f] = IF sent[f] < Size(f) THEN Unknown ELSE Nothing]
           /\ UNCHANGED <<held, lost, capture>>
  <2>1. /\ UNCHANGED <<held, lost, at, flow, batch>> /\ link'[f] = "closed"
        /\ missing'[f] = Unknown \/ missing'[f] = Nothing
        /\ \A g \in Flows \ {f} : missing'[g] = missing[g] /\ link'[g] = link[g]
    BY <1>3, <1>5 DEF capture
  <2>2. \A g \in Flows : InHand(g)' = InHand(g)
    BY <1>2, <2>1 DEF InHand
  <2>3. ASSUME NEW g \in Flows \ {f} PROVE LossFlow(g)'
    BY <1>1, <1>2, <2>1, <2>2, <2>3, LossSame
  <2>4. Line(f)'
    BY <1>2, <1>3, <1>5, <2>1, EmptyLine DEF Known
  <2>5. Joined(f)'
    BY <2>1 DEF Joined
  <2>6. Paid(f)'
    <3>1. Pending(f)' = Pending(f)
      BY <1>2, <2>2 DEF Pending
    <3>2. QED BY <1>1, <1>2, <2>1, <3>1 DEF LossFlow, Paid
  <2>7. QED BY <2>3, <2>4, <2>5, <2>6 DEF LossFlow
<1>6. QED BY <1>4, <1>5 DEF Tick, FlushConnection, reader

(* The network delays a segment. *)
LEMMA LossDelay ==
  ASSUME LossInv, OrderInv', NEW f \in Flows, Delay(f)
  PROVE  \A g \in Flows : LossFlow(g)'
<1>1. /\ OrderInv /\ TypeOK /\ NothingHeld /\ \A g \in Flows : LossFlow(g)
  BY DEF LossInv, OrderInv, BaseInv
<1>2. PICK n \in Ends(f) :
        /\ sent[f] < n /\ missing[f] = Nothing
        /\ missing' = [missing EXCEPT ![f] = Segment(f, n)]
        /\ sent' = [sent EXCEPT ![f] = n]
        /\ UNCHANGED <<held, lost, at, flow, batch, link, pc, current, buf, broken>>
  BY DEF Delay, capture, reader, output
<1>3. /\ sent[f] \in Nat /\ n \in Nat /\ Segment(f, n) \in Segments(f)
      /\ Segment(f, n).first = sent[f] + 1 /\ Segment(f, n).last = n
  BY <1>1, <1>2, NextSegment DEF TypeOK, NetworkType
<1>4. /\ missing'[f] = Segment(f, n) /\ sent'[f] = n /\ held[f] = <<>> /\ Known(f)'
      /\ \A g \in Flows \ {f} : missing'[g] = missing[g] /\ sent'[g] = sent[g]
  <2>1. /\ missing'[f] = Segment(f, n) /\ sent'[f] = n /\ held[f] = <<>>
        /\ \A g \in Flows \ {f} : missing'[g] = missing[g] /\ sent'[g] = sent[g]
    BY <1>1, <1>2 DEF TypeOK, NetworkType, NothingHeld
  <2>2. QED BY <1>3, <2>1, NoSegment DEF Known
<1>5. \A g \in Flows : InHand(g)' = InHand(g) /\ Pending(g)' = Pending(g)
  BY <1>2 DEF InHand, Pending
<1>6. ASSUME NEW g \in Flows \ {f} PROVE LossFlow(g)'
  BY <1>1, <1>2, <1>4, <1>5, LossSame
<1>7. Line(f)'
  <2>1. CellsIn(held'[f]) = {} /\ (n + 1)..n = {} /\ n + 1 \in 1..n + 1
    BY <1>2, <1>3, <1>4, RngEmpty
  <2>2. CellsIn(held'[f]) = (n + 1)..sent'[f] /\ n + 1 = missing'[f].last + 1
    BY <1>3, <1>4, <2>1
  <2>3. QED BY <1>4, <2>1, <2>2 DEF Line
<1>8. Joined(f)'
  <2>1. Edge(f) = sent[f] /\ Edge(f)' = sent[f]
    <3>1. Edge(f) = sent[f]
      BY <1>2 DEF Edge, Known
    <3>2. Edge(f)' = sent[f] + 1 - 1
      BY <1>3, <1>4 DEF Edge
    <3>3. QED BY <1>3, <3>1, <3>2
  <2>2. missing'[f] # Unknown
    BY <1>4 DEF Known
  <2>3. QED BY <1>1, <1>2, <1>5, <2>1, <2>2 DEF LossFlow, Joined
<1>9. Paid(f)'
  BY <1>1, <1>2, <1>5 DEF LossFlow, Paid
<1>10. QED BY <1>6, <1>7, <1>8, <1>9 DEF LossFlow
(* The steps that move no byte towards run. *)
LEMMA LossStill ==
  ASSUME LossInv, OrderInv', NEW f \in Flows,
         \/ Stop \/ SeeDone \/ Return \/ SeeEnd \/ Restart \/ NextFrame \/ ReadError
         \/ Finish(f) \/ TakeBatch(f) \/ AskMore(f) \/ EndOfStream(f) \/ ShortRead(f)
         \/ EndEarlier(f) \/ UNCHANGED vars
  PROVE  \A g \in Flows : LossFlow(g)'
<1>1. /\ OrderInv /\ TypeOK /\ PendingInv /\ \A g \in Flows : LossFlow(g)
      /\ DOMAIN link = Flows /\ DOMAIN pc = Flows /\ DOMAIN current = Flows
  <2>1. OrderInv /\ TypeOK /\ PendingInv /\ \A g \in Flows : LossFlow(g)
    BY DEF LossInv, OrderInv, BaseInv
  <2>2. QED BY <2>1 DEF TypeOK, ReaderType
<1> SUFFICES /\ UNCHANGED <<sent, missing, held, lost, buf, broken>>
             /\ \A g \in Flows : /\ InHand(g)' = InHand(g)
                                 /\ pc'[g] = "running" => pc[g] = "running"
                                 /\ link[g] = "closed" => link'[g] = "closed"
  <2> SUFFICES ASSUME NEW g \in Flows PROVE LossFlow(g)'
    OBVIOUS
  <2>1. QED BY <1>1, LossSame
<1>2. CASE TakeBatch(f)
  <2>1. /\ at = "offer" /\ flow = f /\ at' = "await" /\ link[f] # "closed"
        /\ current' = [current EXCEPT ![f] = batch] /\ link' = [link EXCEPT ![f] = "busy"]
        /\ UNCHANGED <<sent, missing, held, lost, buf, broken, pc>>
    BY <1>2 DEF TakeBatch, network, output
  <2>2. \A g \in Flows : InHand(g)' = InHand(g)
    BY <1>1, <2>1 DEF InHand
  <2>3. \A g \in Flows : link[g] = "closed" => link'[g] = "closed"
    BY <1>1, <2>1
  <2>4. QED BY <2>1, <2>2, <2>3
<1>3. CASE ~TakeBatch(f)
  <2>1. /\ UNCHANGED <<sent, missing, held, lost, buf, broken>>
        /\ UNCHANGED <<flow, batch, current>>
        /\ at' = "offer" <=> at = "offer"
    BY <1>3 DEF Stop, SeeDone, Return, SeeEnd, Restart, NextFrame, ReadError, Finish, AskMore,
                EndOfStream, ShortRead, Die, EndEarlier, vars, network, capture, reader, output
  <2>2. \A g \in Flows : InHand(g)' = InHand(g)
    BY <2>1 DEF InHand
  <2>3. UNCHANGED pc \/ pc' = [pc EXCEPT ![f] = "dead"]
    BY <1>3 DEF Stop, SeeDone, Return, SeeEnd, Restart, NextFrame, ReadError, Finish, AskMore,
                EndOfStream, ShortRead, Die, EndEarlier, vars, reader
  <2>4. \A g \in Flows : pc'[g] = "running" => pc[g] = "running"
    BY <1>1, <2>3
  <2>5. \/ UNCHANGED link
        \/ link' = [link EXCEPT ![f] = "closed"]
        \/ link' = [link EXCEPT ![f] = "asked"] /\ link[f] = "busy"
    BY <1>3 DEF Stop, SeeDone, Return, SeeEnd, Restart, NextFrame, ReadError, Finish, AskMore,
                EndOfStream, ShortRead, Die, EndEarlier, vars, reader
  <2>6. \A g \in Flows : link[g] = "closed" => link'[g] = "closed"
    BY <1>1, <2>5
  <2>7. QED BY <2>1, <2>2, <2>4, <2>6
<1>4. QED BY <1>2, <1>3

(* A step of run that does not concern another flow. *)
LEMMA LossElsewhere ==
  ASSUME LossInv, NEW f \in Flows, Fill(f) \/ QueueFrame(f)
  PROVE  \A g \in Flows \ {f} : LossFlow(g)'
<1>1. TypeOK /\ PendingInv /\ \A g \in Flows : LossFlow(g)
  BY DEF LossInv, OrderInv, BaseInv
<1>2. DOMAIN buf = Flows /\ DOMAIN current = Flows /\ DOMAIN broken = Flows
  BY <1>1 DEF TypeOK, ReaderType, OutputType
<1>3. UNCHANGED <<sent, missing, held, lost, at, flow, batch, link, pc>>
  BY DEF Fill, QueueFrame, network, capture
<1>4. \A g \in Flows \ {f} : buf'[g] = buf[g] /\ current'[g] = current[g] /\ broken'[g] = broken[g]
  BY <1>2 DEF Fill, QueueFrame, output
<1>5. \A g \in Flows \ {f} : InHand(g)' = InHand(g)
  BY <1>3, <1>4 DEF InHand
<1>6. QED BY <1>1, <1>3, <1>4, <1>5, LossSame

LEMMA LossInit == Init => LossInv
<1> SUFFICES ASSUME Init PROVE LossInv
  OBVIOUS
<1>1. OrderInv
  BY OrderInit
<1>2. ASSUME NEW f \in Flows PROVE LossFlow(f)
  <2>1. /\ sent[f] = 0 /\ held[f] = <<>> /\ ~Known(f) /\ pc[f] = "none"
        /\ broken[f] = 0 /\ lost[f] = 0
    BY DEF Init, Known
  <2>2. CellsIn(held[f]) = {} /\ 1..0 = {} /\ 1 \in 1..0 + 1
    BY <2>1, RngEmpty
  <2>3. Line(f)
    BY <2>1, <2>2 DEF Line
  <2>4. QED BY <2>1, <2>3 DEF LossFlow, Joined, Paid
<1>3. QED BY <1>1, <1>2 DEF LossInv

LEMMA LossNext == LossInv /\ [Next]_vars => LossInv'
<1> SUFFICES ASSUME LossInv, [Next]_vars PROVE LossInv'
  OBVIOUS
<1>1. OrderInv'
  BY OrderNext DEF LossInv
<1>2. ASSUME NEW f \in Flows, Receive(f) \/ ReceiveAhead(f) \/ ReceiveLate(f)
      PROVE  LossInv'
  BY <1>1, <1>2, LossAssemble DEF LossInv
<1>3. ASSUME NEW f \in Flows, Tick(f) \/ FlushConnection(f) PROVE LossInv'
  BY <1>1, <1>3, LossHandHeld DEF LossInv
<1>4. ASSUME NEW f \in Flows, Delay(f) PROVE LossInv'
  BY <1>1, <1>4, LossDelay DEF LossInv
<1>5. ASSUME NEW f \in Flows, Fill(f) \/ QueueFrame(f) PROVE LossInv'
  <2>1. LossFlow(f)'
    BY <1>1, <1>5, LossFill, LossQueueFrame
  <2>2. \A g \in Flows \ {f} : LossFlow(g)'
    BY <1>5, LossElsewhere
  <2>3. QED BY <1>1, <2>1, <2>2 DEF LossInv
<1>6. ASSUME NEW f \in Flows,
             \/ Stop \/ SeeDone \/ Return \/ SeeEnd \/ Restart \/ NextFrame \/ ReadError
             \/ Finish(f) \/ TakeBatch(f) \/ AskMore(f) \/ EndOfStream(f) \/ ShortRead(f)
             \/ EndEarlier(f) \/ UNCHANGED vars
      PROVE  LossInv'
  BY <1>1, <1>6, LossStill DEF LossInv
<1>7. flow \in Flows
  BY DEF LossInv, OrderInv, BaseInv, TypeOK, CaptureType
<1>8. QED BY <1>2, <1>3, <1>4, <1>5, <1>6, <1>7 DEF Next, Start, Run

(***************************************************************************)
(* A reader that repeats a length of zero.  It is in the call in which it  *)
(* took its batch, so nothing but its own steps can reach it, and they     *)
(* leave it where it is: it repeats itself for ever.  Its buffer holds a   *)
(* jump, behind a magic number that its header does not follow.            *)
(***************************************************************************)
LEMMA SyncedTwice ==
  ASSUME NEW f \in Flows, NEW b \in Seq(1..Size(f)), b # <<>>, b[1] \in Magic(f)
  PROVE  Synced(f, b) = b
<1> DEFINE magic == {i \in DOMAIN b : b[i] \in Magic(f)}
           m == CHOOSE i \in magic : \A j \in magic : i <= j
<1>1. 1 \in magic /\ magic \subseteq Nat /\ Len(b) \in Nat /\ DOMAIN b = 1..Len(b)
  OBVIOUS
<1>2. \A j \in magic : 1 <= j
  BY <1>1
<1>3. m \in magic /\ \A j \in magic : m <= j
  BY <1>1, <1>2
<1>4. m = 1
  BY <1>1, <1>2, <1>3
<1>5. SubSeq(b, 1, Len(b)) = b
  OBVIOUS
<1>6. QED BY <1>1, <1>4, <1>5 DEF Synced

LEMMA RepeatsWhere ==
  ASSUME OrderInv, NEW f \in Flows, Repeats(f)
  PROVE  at = "await" /\ flow = f /\ pc[f] = "running" /\ ~NeedsMore(f) /\ ~Starved(f)
BY DEF OrderInv, PendingInv, Synchronous, Consuming, Settled, Repeats, Starved

(* Only a length of zero makes an empty packet, and the lengths of frames  *)
(* are not zero.                                                           *)
LEMMA ZeroIsRead ==
  ASSUME NEW f \in Flows, NEW b, 0 \in LengthField(f, b)
  PROVE  LengthField(f, b) = {0}
<1>1. \A k \in LengthOwner(f, b[2]) : Length(f, k) # 0
  <2> SUFFICES ASSUME NEW k \in Frames(f) PROVE Length(f, k) # 0
    BY DEF LengthOwner
  <2>1. QED BY FrameEndsType
<1>2. QED BY <1>1 DEF LengthField

LEMMA QueueFrameRepeats ==
  ASSUME OrderInv, NEW f \in Flows, QueueFrame(f), Repeats(f)
  PROVE  Repeats(f)'
<1>1. /\ TypeOK /\ buf[f] \in Seq(1..Size(f)) /\ DOMAIN buf = Flows
  BY DEF OrderInv, BaseInv, TypeOK, ReaderType
<1> DEFINE b == Synced(f, buf[f])
<1>2. LengthField(f, b) = {0} /\ pc[f] = "running" /\ UNCHANGED <<pc, reading>>
  BY DEF Repeats, QueueFrame
<1>3. PICK length \in Nat :
        /\ length \in LengthField(f, b) /\ Len(b) >= HeaderLength /\ b \in Seq(1..Size(f))
        /\ Rest(b, length) \in Seq(1..Size(f)) /\ Len(Rest(b, length)) = Len(b) - length
        /\ \A i \in 1..Len(b) - length : Rest(b, length)[i] = b[length + i]
        /\ buf' = [buf EXCEPT ![f] = Rest(b, length)]
  BY <1>1, QueueFrameStep, Zenon
<1>4. length = 0
  BY <1>2, <1>3
<1>5. buf'[f] = Rest(b, 0)
  BY <1>1, <1>3, <1>4
<1>6. Rest(b, 0) = b
  BY <1>3 DEF Rest
<1>7. b # <<>> /\ b[1] \in Magic(f)
  <2>1. b # <<>>
    BY <1>3 DEF HeaderLength
  <2>2. QED BY <1>1, <2>1, SyncedType
<1>8. Synced(f, buf'[f]) = b
  BY <1>3, <1>5, <1>6, <1>7, SyncedTwice
<1>9. QED BY <1>2, <1>8 DEF Repeats, NeedsMore, LengthField

LEMMA RepeatsStays ==
  ASSUME OrderInv, [Next]_vars, NEW f \in Flows, Repeats(f)
  PROVE  Repeats(f)'
<1>1. /\ at = "await" /\ flow = f /\ pc[f] = "running" /\ ~NeedsMore(f) /\ ~Starved(f)
      /\ DOMAIN buf = Flows /\ DOMAIN pc = Flows
  BY RepeatsWhere DEF OrderInv, BaseInv, TypeOK, ReaderType
<1>2. ASSUME UNCHANGED reading, buf'[f] = buf[f], pc'[f] = pc[f] PROVE Repeats(f)'
  BY <1>2 DEF Repeats, NeedsMore, LengthField
<1>3. CASE Stop \/ NextFrame \/ ReadError \/ UNCHANGED vars
  BY <1>2, <1>3 DEF Stop, NextFrame, ReadError, vars, reader, output
<1>4. ASSUME NEW g \in Flows, Delay(g) \/ EndEarlier(g) PROVE Repeats(f)'
  BY <1>2, <1>4 DEF Delay, EndEarlier, reader, output
<1>5. ASSUME NEW g \in Flows, TakeBatch(g) \/ AskMore(g) PROVE Repeats(f)'
  BY <1>1, <1>5 DEF TakeBatch, AskMore
<1>6. ASSUME NEW g \in Flows, Fill(g) PROVE Repeats(f)'
  BY <1>1, <1>2, <1>6 DEF Fill, output
<1>7. ASSUME NEW g \in Flows, EndOfStream(g) PROVE Repeats(f)'
  BY <1>1, <1>2, <1>7 DEF EndOfStream, Die, output
<1>8. ASSUME NEW g \in Flows, ShortRead(g) PROVE Repeats(f)'
  <2>1. g # f
    <3> SUFFICES ASSUME g = f PROVE FALSE
      OBVIOUS
    <3>1. LengthField(f, Synced(f, buf[f])) = {0}
      BY DEF Repeats
    <3>2. Len(Synced(f, buf[f])) \in Nat
      BY SyncedType DEF OrderInv, BaseInv, TypeOK, ReaderType
    <3>3. QED BY <1>8, <3>1, <3>2 DEF ShortRead, ReadInFull
  <2>2. QED BY <1>1, <1>2, <1>8, <2>1 DEF ShortRead, Die, output
<1>9. ASSUME NEW g \in Flows, QueueFrame(g) PROVE Repeats(f)'
  <2>1. CASE g = f
    BY <1>9, <2>1, QueueFrameRepeats
  <2>2. CASE g # f
    BY <1>1, <1>2, <1>9, <2>2 DEF QueueFrame
  <2>3. QED BY <2>1, <2>2
<1>10. /\ ~SeeDone /\ ~Return /\ ~SeeEnd /\ ~Restart
       /\ \A g \in Flows : /\ ~Receive(g) /\ ~ReceiveAhead(g) /\ ~ReceiveLate(g)
                           /\ ~Finish(g) /\ ~Tick(g) /\ ~FlushConnection(g)
  BY <1>1 DEF SeeDone, Return, SeeEnd, Restart, Receive, ReceiveAhead, ReceiveLate, Finish,
              Tick, FlushConnection
<1>11. QED BY <1>3, <1>4, <1>5, <1>6, <1>7, <1>8, <1>9, <1>10 DEF Next, Start, Run

EmptyPackets ==
  \A f \in Flows : \A i \in DOMAIN dataCh : dataCh[i] = [flow |-> f, body |-> <<>>] => Repeats(f)

RepairInv == LossInv /\ EmptyPackets

LEMMA EmptyQueueFrame ==
  ASSUME OrderInv, EmptyPackets, NEW f \in Flows, QueueFrame(f),
         \A g \in Flows : Repeats(g) => Repeats(g)'
  PROVE  EmptyPackets'
<1>1. /\ TypeOK /\ buf[f] \in Seq(1..Size(f)) /\ dataCh \in Seq([flow : Flows, body : Seq(Nat)])
  BY DEF OrderInv, BaseInv, TypeOK, ReaderType, OutputType
<1> DEFINE b == Synced(f, buf[f])
<1>2. PICK length \in Nat :
        /\ length \in LengthField(f, b) /\ pc[f] = "running" /\ Len(Read(b, length)) = length
        /\ dataCh' = Append(dataCh, [flow |-> f, body |-> Read(b, length)])
  BY <1>1, QueueFrameStep, Zenon
<1> DEFINE d == [flow |-> f, body |-> Read(b, length)]
<1>3. ASSUME NEW g \in Flows, d = [flow |-> g, body |-> <<>>]
      PROVE  Repeats(g)
  <2>1. g = f /\ Read(b, length) = <<>>
    BY <1>3
  <2>2. length = 0
    BY <1>2, <2>1
  <2>3. LengthField(f, b) = {0}
    BY <1>2, <2>2, ZeroIsRead
  <2>4. QED BY <1>2, <2>1, <2>3 DEF Repeats, QueueFrame
<1> HIDE DEF d
<1>4. dataCh' = Append(dataCh, d)
  BY <1>2 DEF d
<1>5. ASSUME NEW g \in Flows, NEW i \in DOMAIN dataCh', dataCh'[i] = [flow |-> g, body |-> <<>>]
      PROVE  Repeats(g)'
  <2>1. CASE i = Len(dataCh) + 1
    <3>1. dataCh'[i] = d
      BY <1>1, <1>4, <2>1
    <3>2. QED BY <1>3, <1>5, <3>1
  <2>2. CASE i # Len(dataCh) + 1
    <3>1. i \in DOMAIN dataCh /\ dataCh'[i] = dataCh[i]
      BY <1>1, <1>4, <2>2
    <3>2. QED BY <1>5, <3>1 DEF EmptyPackets
  <2>3. QED BY <2>1, <2>2
<1>6. QED BY <1>5 DEF EmptyPackets

LEMMA EmptyNext == OrderInv /\ EmptyPackets /\ [Next]_vars => EmptyPackets'
<1> SUFFICES ASSUME OrderInv, EmptyPackets, [Next]_vars PROVE EmptyPackets'
  OBVIOUS
<1>1. \A g \in Flows : Repeats(g) => Repeats(g)'
  BY RepeatsStays
<1>2. dataCh \in Seq([flow : Flows, body : Seq(Nat)])
  BY DEF OrderInv, BaseInv, TypeOK, OutputType
<1>3. CASE UNCHANGED dataCh
  BY <1>1, <1>3 DEF EmptyPackets
<1>4. CASE NextFrame
  <2>1. dataCh # <<>> /\ dataCh' = Tail(dataCh)
    BY <1>4 DEF NextFrame
  <2>2. \A i \in DOMAIN dataCh' : i + 1 \in DOMAIN dataCh /\ dataCh'[i] = dataCh[i + 1]
    BY <1>2, <2>1
  <2>3. QED BY <1>1, <2>2 DEF EmptyPackets
<1>5. ASSUME NEW f \in Flows, QueueFrame(f) PROVE EmptyPackets'
  BY <1>1, <1>5, EmptyQueueFrame
<1>6. ASSUME NEW f \in Flows, Run(f) \/ EndEarlier(f), ~QueueFrame(f) PROVE EmptyPackets'
  BY <1>3, <1>6 DEF Run, TakeBatch, AskMore, Fill, EndOfStream, ShortRead, Die, EndEarlier, output
<1>7. ASSUME NEW f \in Flows,
             \/ Delay(f) \/ Receive(f) \/ ReceiveAhead(f) \/ ReceiveLate(f) \/ Finish(f)
             \/ Tick(f) \/ FlushConnection(f)
      PROVE  EmptyPackets'
  BY <1>3, <1>7 DEF Delay, Receive, ReceiveAhead, ReceiveLate, Finish, Tick, FlushConnection,
                    output
<1>8. CASE Stop \/ SeeDone \/ Return \/ SeeEnd \/ Restart \/ ReadError \/ UNCHANGED vars
  BY <1>3, <1>8 DEF Stop, SeeDone, Return, SeeEnd, Restart, ReadError, vars, output
<1>9. QED BY <1>4, <1>5, <1>6, <1>7, <1>8 DEF Next, Start

(* A jump is paid for by a segment given up, and so is a repeating reader. *)
LEMMA RepeatsIsPaid ==
  ASSUME LossInv, NEW f \in Flows
  PROVE  broken[f] + (IF Repeats(f) THEN 1 ELSE 0) <= lost[f]
<1>1. OrderInv /\ Paid(f) /\ broken[f] \in Nat /\ lost[f] \in Nat /\ buf[f] \in Seq(1..Size(f))
  BY DEF LossInv, LossFlow, OrderInv, BaseInv, TypeOK, NetworkType, ReaderType, OutputType
<1>2. CASE ~Repeats(f)
  BY <1>1, <1>2 DEF Paid
<1>3. CASE Repeats(f)
  <2> DEFINE b == Synced(f, buf[f])
  <2>1. /\ b \in Seq(1..Size(f)) /\ Len(b) \in Nat /\ Len(b) >= HeaderLength
        /\ LengthField(f, b) = {0} /\ pc[f] = "running"
    <3>1. b \in Seq(1..Size(f)) /\ Len(b) \in Nat
      BY <1>1, SyncedType
    <3>2. QED BY <1>3, <3>1 DEF Repeats, NeedsMore, HeaderLength
  <2>2. b # <<>> /\ b[1] \in Magic(f)
    <3>1. b # <<>>
      BY <2>1 DEF HeaderLength
    <3>2. QED BY <1>1, <3>1, SyncedType
  <2>3. PICK n \in Frames(f) : b[1] = First(f, n)
    BY <2>2 DEF Magic
  <2>4. b[2] # b[1] + 1
    <3> SUFFICES ASSUME b[2] = b[1] + 1 PROVE FALSE
      OBVIOUS
    <3>1. LengthField(f, b) = {Length(f, n)}
      BY <2>3, LengthRead
    <3>2. Length(f, n) = 0
      BY <2>1, <3>1
    <3>3. QED BY <3>2, FrameEndsType
  <2>5. b[1] \in Jumps(Pending(f))
    <3>1. 1 \in 1..Len(b) - 1 /\ b[1 + 1] # b[1] + 1
      BY <2>1, <2>4 DEF HeaderLength
    <3>2. QED BY <1>1, <3>1, JumpInBuffer
  <2>6. /\ IsFiniteSet(Jumps(Pending(f))) /\ Cardinality(Jumps(Pending(f))) \in Nat
    BY <1>1, PendingType, JumpsType
  <2>7. Cardinality(Jumps(Pending(f))) # 0
    BY <2>5, <2>6, FS_EmptySet
  <2>8. broken[f] + Cardinality(Jumps(Pending(f))) <= lost[f]
    BY <1>1, <2>1 DEF Paid
  <2>9. QED BY <1>1, <1>3, <2>6, <2>7, <2>8
<1>4. QED BY <1>2, <1>3

(* What a reader makes of bytes that do not follow one another             *)
(* (reassembler.go:73) costs no more than what was lost: of the segments   *)
(* given up, each has led to at most one packet that is not a frame of the *)
(* flow, or has made the reader repeat itself.  The packets that it then   *)
(* queues, without end, are the only empty ones.  Where nothing was given  *)
(* up every packet is a frame.                                             *)
THEOREM LossIsRepaired == Spec => []LossIsLocal
<1>1. Init => RepairInv
  <2>1. Init => EmptyPackets
    BY DEF Init, EmptyPackets
  <2>2. QED BY <2>1, LossInit DEF RepairInv
<1>2. RepairInv /\ [Next]_vars => RepairInv'
  BY LossNext, EmptyNext DEF RepairInv, LossInv
<1>3. RepairInv => LossIsLocal
  BY RepeatsIsPaid DEF RepairInv, EmptyPackets, LossIsLocal
<1>4. QED BY <1>1, <1>2, <1>3, PTL DEF Spec
=============================================================================
