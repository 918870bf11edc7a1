--------------------------- MODULE DispatchProofs ---------------------------
(***************************************************************************)
(* Proofs about Dispatch, for any frame of any number of messages, any     *)
(* sizes of the buffer and of messages, and any handlers.                  *)
(***************************************************************************)
EXTENDS Dispatch, SequenceTheorems, WellFoundedInduction, TLAPS

-----------------------------------------------------------------------------
(* The reader. *)

(* The number of the cell that is read next. *)
At(b) == b.next - Buffered(b)

ReaderType(b) ==
  /\ b \in [buf : [1..BufferSize -> Nat], r : Nat, w : Nat, next : Nat, end : Nat]
  /\ b.r <= b.w /\ b.w <= BufferSize /\ b.next <= b.end + 1

(* The unread cells are consecutive. *)
ReaderOK(b) == ReaderType(b) /\ At(b) \in Nat \ {0} /\ Reads(b, At(b))

LEMMA ReaderFacts ==
  ASSUME NEW b, ReaderType(b)
  PROVE  /\ b.r \in Nat /\ b.w \in Nat /\ b.next \in Nat /\ b.end \in Nat
         /\ b.r <= b.w /\ b.w <= BufferSize /\ b.next <= b.end + 1
         /\ Buffered(b) = b.w - b.r /\ Behind(b) = (b.end + 1) - b.next
         /\ Buffered(b) \in Nat /\ Behind(b) \in Nat /\ Buffered(b) <= BufferSize
         /\ At(b) = b.next - Buffered(b)
         /\ BufferSize \in Nat /\ BufferSize >= 2 /\ b.buf \in [1..BufferSize -> Nat]
         /\ Room(b) = BufferSize
<1>1. b.r \in Nat /\ b.w \in Nat /\ b.next \in Nat /\ b.end \in Nat /\ b.buf \in [1..BufferSize -> Nat]
  BY DEF ReaderType
<1>2. b.r <= b.w /\ b.w <= BufferSize /\ b.next <= b.end + 1
  BY DEF ReaderType
<1>3. BufferSize \in Nat /\ BufferSize >= 2
  BY DispatchAssumption DEF HeaderLength
<1>4. /\ Buffered(b) = b.w - b.r /\ Behind(b) = (b.end + 1) - b.next
      /\ At(b) = b.next - Buffered(b)
  BY DEF Buffered, Behind, At
<1>5. Buffered(b) \in Nat /\ Behind(b) \in Nat /\ Buffered(b) <= BufferSize
  <2>1. b.w - b.r \in Nat /\ b.w - b.r <= BufferSize
    BY <1>1, <1>2, <1>3
  <2>2. (b.end + 1) - b.next \in Nat
    BY <1>1, <1>2
  <2>3. QED BY <1>4, <2>1, <2>2
<1>6. Room(b) = BufferSize
  BY <1>1, <1>3 DEF Room
<1>7. QED BY <1>1, <1>2, <1>3, <1>4, <1>5, <1>6

(* A read moves the cells and brings in those behind them. *)
LEMMA FillKeeps ==
  ASSUME NEW b, ReaderOK(b)
  PROVE  /\ ReaderOK(Fill(b)) /\ At(Fill(b)) = At(b) /\ Fill(b).end = b.end
         /\ Buffered(Fill(b)) + Behind(Fill(b)) = Buffered(b) + Behind(b)
         /\ Behind(Fill(b)) = 0 \/ Buffered(Fill(b)) = BufferSize
<1> DEFINE old == Buffered(b)
           new == IF Behind(b) < BufferSize - old THEN Behind(b) ELSE BufferSize - old
           c == Fill(b)
<1>1. /\ b.r \in Nat /\ b.w \in Nat /\ b.next \in Nat /\ b.end \in Nat
      /\ b.r <= b.w /\ b.w <= BufferSize /\ b.next <= b.end + 1
      /\ Buffered(b) = b.w - b.r /\ Behind(b) = (b.end + 1) - b.next
      /\ Buffered(b) \in Nat /\ Behind(b) \in Nat /\ Buffered(b) <= BufferSize
      /\ At(b) = b.next - Buffered(b)
      /\ BufferSize \in Nat /\ b.buf \in [1..BufferSize -> Nat] /\ Room(b) = BufferSize
  BY ReaderFacts DEF ReaderOK
<1>2. /\ At(b) \in Nat \ {0}
      /\ \A i \in 1..old : b.buf[b.r + i] = At(b) + i - 1
  BY DEF ReaderOK, Reads
<1>3. /\ new \in Nat /\ old + new <= BufferSize /\ new <= Behind(b)
      /\ new = Behind(b) \/ old + new = BufferSize
  <2>1. \A h, o, s \in Nat : o <= s =>
          /\ h < s - o => h \in Nat /\ o + h <= s
          /\ ~(h < s - o) => s - o \in Nat /\ o + (s - o) = s /\ s - o <= h
    OBVIOUS
  <2>2. /\ Behind(b) < BufferSize - old => new = Behind(b)
        /\ ~(Behind(b) < BufferSize - old) => new = BufferSize - old
    OBVIOUS
  <2> HIDE DEF new
  <2>3. old \in Nat /\ old <= BufferSize /\ BufferSize \in Nat /\ Behind(b) \in Nat
    BY <1>1
  <2> HIDE DEF old
  <2>4. CASE Behind(b) < BufferSize - old
    <3>1. new = Behind(b) /\ old + Behind(b) <= BufferSize
      BY <2>1, <2>2, <2>3, <2>4
    <3>2. QED BY <2>3, <3>1
  <2>5. CASE ~(Behind(b) < BufferSize - old)
    <3>1. /\ new = BufferSize - old /\ BufferSize - old \in Nat
          /\ old + (BufferSize - old) = BufferSize /\ BufferSize - old <= Behind(b)
      BY <2>1, <2>2, <2>3, <2>5
    <3>2. BufferSize <= BufferSize
      BY <2>3
    <3>3. QED BY <3>1, <3>2
  <2>6. QED BY <2>4, <2>5
<1>4. /\ c.r = 0 /\ c.w = old + new /\ c.next = b.next + new /\ c.end = b.end
      /\ c.buf = [i \in 1..BufferSize |-> IF i <= old THEN b.buf[b.r + i]
                                          ELSE IF i <= old + new THEN b.next + i - old - 1
                                          ELSE b.buf[i]]
      /\ c = [buf |-> c.buf, r |-> c.r, w |-> c.w, next |-> c.next, end |-> c.end]
  BY <1>1 DEF Fill
<1> HIDE DEF new, c, old
<1>0. old = Buffered(b) /\ c = Fill(b)
  BY DEF old, c
<1>F. c.r = 0 /\ c.w = old + new /\ c.next = b.next + new /\ c.end = b.end
  BY <1>4
<1>T. /\ old \in Nat /\ new \in Nat
      /\ b.r \in Nat /\ b.w \in Nat /\ b.next \in Nat /\ b.end \in Nat
  BY <1>0, <1>1, <1>3
<1>5. \A i \in 1..BufferSize : i <= old + new => c.buf[i] = At(b) + i - 1
  <2>1. TAKE i \in 1..BufferSize
  <2>2. CASE i <= old
    <3>1. c.buf[i] = b.buf[b.r + i]
      BY <1>4, <2>2
    <3>2. i \in 1..old
      BY <1>0, <1>1, <2>2
    <3>3. QED BY <1>2, <3>1, <3>2
  <2>3. CASE ~(i <= old) /\ i <= old + new
    <3>1. c.buf[i] = b.next + i - old - 1
      BY <1>4, <2>3
    <3>2. At(b) = b.next - old /\ old \in Nat /\ b.next \in Nat
      BY <1>0, <1>1
    <3>3. \A x, o \in Nat : x + i - o - 1 = (x - o) + i - 1
      OBVIOUS
    <3>4. QED BY <3>1, <3>2, <3>3
  <2>4. QED BY <2>2, <2>3
<1>6. c.buf \in [1..BufferSize -> Nat]
  <2>1. \A i \in 1..BufferSize : c.buf[i] \in Nat
    <3>1. TAKE i \in 1..BufferSize
    <3>2. CASE i <= old + new
      BY <1>2, <1>5, <3>2
    <3>3. CASE ~(i <= old + new)
      <4>1. ~(i <= old)
        BY <1>0, <1>1, <1>3, <3>3
      <4>2. c.buf[i] = b.buf[i]
        BY <1>4, <3>3, <4>1
      <4>3. QED BY <1>1, <4>2
    <3>4. QED BY <3>2, <3>3
  <2>2. QED BY <1>4, <2>1
<1>7. ReaderType(c)
  <2>1. c.r \in Nat /\ c.w \in Nat /\ c.next \in Nat /\ c.end \in Nat
    <3>1. old + new \in Nat /\ b.next + new \in Nat /\ b.end \in Nat
      BY <1>T
    <3>2. QED BY <1>4, <3>1
  <2>2. c \in [buf : [1..BufferSize -> Nat], r : Nat, w : Nat, next : Nat, end : Nat]
    BY <1>4, <1>6, <2>1
  <2>3. c.r <= c.w /\ c.w <= BufferSize /\ c.next <= c.end + 1
    <3>1. c.r <= c.w /\ c.w <= BufferSize
      BY <1>F, <1>T, <1>3
    <3>2. \A x, y, z \in Nat : x <= (z + 1) - y => y + x <= z + 1
      OBVIOUS
    <3>3. new <= (b.end + 1) - b.next
      BY <1>1, <1>3
    <3>4. QED BY <1>F, <1>T, <3>1, <3>2, <3>3
  <2>4. QED BY <2>2, <2>3 DEF ReaderType
<1>8. /\ Buffered(c) = old + new /\ Behind(c) = Behind(b) - new
      /\ At(c) = At(b)
  <2>1. Buffered(c) = c.w - c.r /\ Behind(c) = (c.end + 1) - c.next /\ At(c) = c.next - Buffered(c)
    BY DEF Buffered, Behind, At
  <2>2. Buffered(c) = old + new
    <3>1. (old + new) - 0 = old + new
      BY <1>T
    <3>2. Buffered(c) = (old + new) - 0
      BY <1>F, <2>1
    <3>3. QED BY <3>1, <3>2
  <2>3. Behind(c) = Behind(b) - new
    <3>1. (b.end + 1) - (b.next + new) = ((b.end + 1) - b.next) - new
      BY <1>T
    <3>2. Behind(c) = (b.end + 1) - (b.next + new)
      BY <1>F, <2>1
    <3>3. Behind(b) = (b.end + 1) - b.next
      BY <1>1
    <3>4. QED BY <3>1, <3>2, <3>3
  <2>4. At(c) = At(b)
    <3>1. (b.next + new) - (old + new) = b.next - old
      BY <1>T
    <3>2. At(c) = (b.next + new) - (old + new)
      BY <1>F, <2>1, <2>2
    <3>3. At(b) = b.next - old
      BY <1>0, <1>1
    <3>4. QED BY <3>1, <3>2, <3>3
  <2>5. QED BY <2>2, <2>3, <2>4
<1>9. Reads(c, At(c))
  <2>1. c.next = At(c) + Buffered(c)
    BY <1>0, <1>1, <1>3, <1>4, <1>8
  <2>2. \A i \in 1..Buffered(c) : c.buf[c.r + i] = At(c) + i - 1
    <3>1. TAKE i \in 1..Buffered(c)
    <3>2. i \in 1..BufferSize /\ i <= old + new /\ c.r + i = i
      <4>1. i \in Nat /\ 1 <= i /\ i <= old + new
        BY <1>T, <1>8
      <4>2. old + new <= BufferSize /\ BufferSize \in Nat
        BY <1>1, <1>3
      <4>3. QED BY <1>F, <1>T, <4>1, <4>2
    <3>3. QED BY <1>5, <1>8, <3>2
  <2>3. QED BY <2>1, <2>2 DEF Reads
<1>10. /\ Buffered(c) + Behind(c) = Buffered(b) + Behind(b)
       /\ Behind(c) = 0 \/ Buffered(c) = BufferSize
  BY <1>0, <1>1, <1>3, <1>8
<1>11. QED BY <1>0, <1>2, <1>4, <1>7, <1>8, <1>9, <1>10 DEF ReaderOK

LEMMA PeekKeeps ==
  ASSUME NEW b, ReaderOK(b), NEW n \in Int
  PROVE  /\ ReaderOK(Peek(b, n)) /\ At(Peek(b, n)) = At(b) /\ Peek(b, n).end = b.end
         /\ Buffered(Peek(b, n)) + Behind(Peek(b, n)) = Buffered(b) + Behind(b)
         /\ CanPeek(b, n) => n <= Buffered(Peek(b, n))
<1>1. /\ Buffered(b) \in Nat /\ Behind(b) \in Nat /\ Buffered(b) <= BufferSize /\ BufferSize \in Nat
      /\ Room(b) = BufferSize
  BY ReaderFacts DEF ReaderOK
<1>2. CASE Buffered(b) < n /\ Buffered(b) < BufferSize
  <2>1. Peek(b, n) = Fill(b)
    BY <1>1, <1>2 DEF Peek
  <2>2. Buffered(Fill(b)) \in Nat /\ Behind(Fill(b)) \in Nat
    BY FillKeeps, ReaderFacts DEF ReaderOK
  <2>3. CanPeek(b, n) => n <= Buffered(Fill(b))
    BY <1>1, <2>2, FillKeeps DEF CanPeek
  <2>4. QED BY <2>1, <2>3, FillKeeps
<1>3. CASE ~(Buffered(b) < n /\ Buffered(b) < BufferSize)
  <2>1. Peek(b, n) = b
    BY <1>1, <1>3 DEF Peek
  <2>2. CanPeek(b, n) => n <= Buffered(b)
    BY <1>1, <1>3 DEF CanPeek
  <2>3. QED BY <2>1, <2>2
<1>4. QED BY <1>2, <1>3

LEMMA DiscardKeeps ==
  ASSUME NEW b, ReaderOK(b), NEW n \in Nat, n <= Buffered(b)
  PROVE  /\ ReaderOK(Discard(b, n)) /\ At(Discard(b, n)) = At(b) + n
         /\ Discard(b, n).end = b.end /\ Behind(Discard(b, n)) = Behind(b)
         /\ Buffered(Discard(b, n)) = Buffered(b) - n
<1> DEFINE c == Discard(b, n)
<1>1. /\ b.r \in Nat /\ b.w \in Nat /\ b.next \in Nat /\ b.end \in Nat
      /\ b.r <= b.w /\ b.w <= BufferSize /\ b.next <= b.end + 1
      /\ Buffered(b) = b.w - b.r /\ Behind(b) = (b.end + 1) - b.next
      /\ Buffered(b) \in Nat /\ At(b) = b.next - Buffered(b)
      /\ BufferSize \in Nat /\ b.buf \in [1..BufferSize -> Nat]
  BY ReaderFacts DEF ReaderOK
<1>2. /\ At(b) \in Nat \ {0}
      /\ \A i \in 1..Buffered(b) : b.buf[b.r + i] = At(b) + i - 1
  BY DEF ReaderOK, Reads
<1>3. b \in [buf : [1..BufferSize -> Nat], r : Nat, w : Nat, next : Nat, end : Nat]
  BY DEF ReaderOK, ReaderType
<1>10. b.r + n \in Nat /\ b.r + n <= b.w
  <2>1. b.r \in Nat /\ b.w \in Nat /\ n <= b.w - b.r
    BY <1>1
  <2>2. QED BY <2>1
<1>4. /\ c.r = b.r + n /\ c.w = b.w /\ c.next = b.next /\ c.end = b.end /\ c.buf = b.buf
      /\ c \in [buf : [1..BufferSize -> Nat], r : Nat, w : Nat, next : Nat, end : Nat]
  BY <1>3, <1>10 DEF Discard
<1> HIDE DEF c
<1>5. ReaderType(c)
  BY <1>1, <1>4, <1>10 DEF ReaderType
<1>6. Buffered(c) = Buffered(b) - n /\ Behind(c) = Behind(b) /\ At(c) = At(b) + n
  <2>1. Buffered(c) = c.w - c.r /\ Behind(c) = (c.end + 1) - c.next /\ At(c) = c.next - Buffered(c)
    BY DEF Buffered, Behind, At
  <2>2. Buffered(c) = Buffered(b) - n
    <3>1. \A w, r \in Nat : w - (r + n) = (w - r) - n
      OBVIOUS
    <3>2. b.w \in Nat /\ b.r \in Nat /\ Buffered(b) = b.w - b.r
      BY <1>1
    <3>3. Buffered(c) = b.w - (b.r + n)
      BY <1>4, <2>1
    <3>4. QED BY <3>1, <3>2, <3>3
  <2>3. At(c) = At(b) + n
    <3>1. \A x, y \in Nat : x - (y - n) = (x - y) + n
      OBVIOUS
    <3>2. b.next \in Nat /\ Buffered(b) \in Nat /\ At(b) = b.next - Buffered(b)
      BY <1>1
    <3>3. At(c) = b.next - (Buffered(b) - n)
      BY <1>4, <2>1, <2>2
    <3>4. QED BY <3>1, <3>2, <3>3
  <2>4. QED BY <1>1, <1>4, <2>1, <2>2, <2>3
<1>7. Reads(c, At(c))
  <2>1. c.next = At(c) + Buffered(c)
    <3>1. \A x, y \in Nat : x = (x - y) + n + (y - n)
      OBVIOUS
    <3>2. b.next \in Nat /\ Buffered(b) \in Nat /\ At(b) = b.next - Buffered(b)
      BY <1>1
    <3>3. b.next = At(b) + n + (Buffered(b) - n)
      BY <3>1, <3>2
    <3>4. QED BY <1>4, <1>6, <3>3
  <2>2. \A i \in 1..Buffered(c) : c.buf[c.r + i] = At(c) + i - 1
    <3>1. TAKE i \in 1..Buffered(c)
    <3>2. n + i \in 1..Buffered(b) /\ c.r + i = b.r + (n + i)
      <4>1. i \in Nat /\ 1 <= i /\ i <= Buffered(b) - n
        BY <1>1, <1>6
      <4>2. n + i \in 1..Buffered(b)
        <5>1. \A k \in Nat : i <= k - n => n + i \in 1..k
          BY <4>1
        <5>2. QED BY <1>1, <4>1, <5>1
      <4>3. b.r + n + i = b.r + (n + i)
        <5>1. b.r \in Nat /\ i \in Nat
          BY <1>1, <4>1
        <5>2. QED BY <5>1
      <4>4. QED BY <1>4, <4>2, <4>3
    <3>3. c.buf[c.r + i] = At(b) + (n + i) - 1
      BY <1>2, <1>4, <3>2
    <3>4. QED BY <1>2, <1>6, <3>3
  <2>3. QED BY <2>1, <2>2 DEF Reads
<1>8. At(c) \in Nat \ {0}
  BY <1>2, <1>6
<1>9. QED BY <1>4, <1>5, <1>6, <1>7, <1>8 DEF ReaderOK, c

-----------------------------------------------------------------------------
(* The slices of the buffer that have been handed out. *)

SliceType == [from : Nat \ {0}, front : Int, held : Seq(Nat)]

(* A slice holds what a buffer has in its place. *)
Holding(k, buf) == \A i \in DOMAIN k.held : buf[k.from + i - 1] = k.held[i]

(* The cells of a buffer have not moved since the slice was taken of it,   *)
(* and what the slice holds is consumed; or more has been read since than  *)
(* the buffer has room for.                                                *)
Safe(k, b) ==
  /\ k.front <= Front(b)
  /\ k.front = Front(b) => Holding(k, b.buf) /\ k.from + Len(k.held) <= b.r + 1
  /\ k.front < Front(b) => k.front + BufferSize < b.next

(* A read fills the buffer as far as the source goes. *)
Full(b) == Behind(b) = 0 \/ b.w = BufferSize \/ b.w = 0

(* A reader at b has come to c. *)
Safely(b, c) == Full(b) => Full(c) /\ \A k \in SliceType : Safe(k, b) => Safe(k, c)

LEMMA SafelyTwice ==
  ASSUME NEW a, NEW b, NEW c, Safely(a, b), Safely(b, c)
  PROVE  Safely(a, c)
BY DEF Safely

LEMMA FillSafely ==
  ASSUME NEW b, ReaderOK(b), Behind(b) # 0, Buffered(b) < BufferSize
  PROVE  Safely(b, Fill(b))
<1> DEFINE new == IF Behind(b) < Room(b) - Buffered(b) THEN Behind(b) ELSE Room(b) - Buffered(b)
           c == Fill(b)
<1>1. /\ b.r \in Nat /\ b.w \in Nat /\ b.next \in Nat /\ b.r <= b.w
      /\ Buffered(b) = b.w - b.r /\ Buffered(b) \in Nat /\ Behind(b) \in Nat
      /\ BufferSize \in Nat /\ Room(b) = BufferSize
  BY ReaderFacts DEF ReaderOK
<1>2. new \in Nat /\ 1 <= new
  BY <1>1
<1>3. c.r = 0 /\ c.w = Buffered(b) + new /\ c.next = b.next + new
  BY DEF Fill
<1>4. ReaderOK(c) /\ (Behind(c) = 0 \/ Buffered(c) = BufferSize)
  BY FillKeeps
<1> HIDE DEF new, c
<1>5. Full(c)
  <2>1. Buffered(c) = c.w
    BY <1>1, <1>2, <1>3 DEF Buffered
  <2>2. QED BY <1>4, <2>1 DEF Full
<1>6. Front(b) = b.next - b.w /\ Front(c) = Front(b) + b.r
  <2>1. Front(c) = (b.next + new) - (b.w - b.r + new)
    BY <1>1, <1>3 DEF Front
  <2>2. QED BY <1>1, <1>2, <2>1 DEF Front
<1>7. ASSUME Full(b), NEW k \in SliceType, Safe(k, b) PROVE Safe(k, c)
  <2>1. k.from \in Nat /\ k.from >= 1 /\ k.front \in Int /\ Len(k.held) \in Nat /\ DOMAIN k.held = 1..Len(k.held)
    BY DEF SliceType
  <2>2. Front(b) \in Int /\ k.front <= Front(b) /\ k.front <= Front(c)
    BY <1>1, <1>6, <1>7, <2>1 DEF Safe
  <2>3. ASSUME k.front = Front(c) PROVE Holding(k, c.buf) /\ k.from + Len(k.held) <= c.r + 1
    <3>1. b.r = 0 /\ k.front = Front(b)
      BY <1>1, <1>6, <2>2, <2>3
    <3>2. k.from + Len(k.held) <= 1
      BY <1>7, <3>1 DEF Safe
    <3>3. Len(k.held) = 0
      BY <2>1, <3>2
    <3>4. Holding(k, c.buf)
      BY <2>1, <3>3 DEF Holding
    <3>5. QED BY <1>3, <3>2, <3>4
  <2>4. ASSUME k.front < Front(c) PROVE k.front + BufferSize < c.next
    <3>1. CASE k.front < Front(b)
      <4>1. k.front + BufferSize < b.next
        BY <1>7, <3>1 DEF Safe
      <4>2. QED BY <1>1, <1>2, <1>3, <2>1, <4>1
    <3>2. CASE ~(k.front < Front(b))
      <4>1. k.front = Front(b) /\ b.r # 0
        BY <1>1, <1>6, <2>1, <2>2, <2>4, <3>2
      <4>2. b.w = BufferSize
        BY <1>1, <1>7, <4>1 DEF Full
      <4>3. QED BY <1>1, <1>2, <1>3, <1>6, <4>1, <4>2
    <3>3. QED BY <3>1, <3>2
  <2>5. QED BY <2>2, <2>3, <2>4 DEF Safe
<1>8. QED BY <1>5, <1>7 DEF Safely, c

LEMMA PeekSafely ==
  ASSUME NEW b, ReaderOK(b), NEW n \in Int, CanPeek(b, n)
  PROVE  Safely(b, Peek(b, n))
<1>1. /\ Buffered(b) \in Nat /\ Behind(b) \in Nat /\ Room(b) = BufferSize /\ BufferSize \in Nat
  BY ReaderFacts DEF ReaderOK
<1>2. CASE Buffered(b) < n /\ Buffered(b) < BufferSize
  <2>1. Peek(b, n) = Fill(b)
    BY <1>1, <1>2 DEF Peek
  <2>2. Behind(b) # 0
    BY <1>1, <1>2 DEF CanPeek
  <2>3. QED BY <1>2, <2>1, <2>2, FillSafely
<1>3. CASE ~(Buffered(b) < n /\ Buffered(b) < BufferSize)
  BY <1>1, <1>3 DEF Peek, Safely
<1>4. QED BY <1>2, <1>3

LEMMA DiscardSafely ==
  ASSUME NEW b, ReaderOK(b), NEW n \in Nat
  PROVE  Safely(b, Discard(b, n))
<1>1. b \in [buf : [1..BufferSize -> Nat], r : Nat, w : Nat, next : Nat, end : Nat]
  BY DEF ReaderOK, ReaderType
<1> DEFINE c == Discard(b, n)
<1>2. c.buf = b.buf /\ c.r = b.r + n /\ c.w = b.w /\ c.next = b.next /\ c.end = b.end
  BY <1>1 DEF Discard
<1> HIDE DEF c
<1>3. Front(c) = Front(b) /\ Behind(c) = Behind(b) /\ (Full(b) => Full(c))
  BY <1>2 DEF Front, Behind, Full
<1>4. ASSUME NEW k \in SliceType, Safe(k, b) PROVE Safe(k, c)
  <2>1. k.from \in Nat /\ Len(k.held) \in Nat /\ b.r \in Nat
    BY <1>1 DEF SliceType
  <2>2. k.from + Len(k.held) <= b.r + 1 => k.from + Len(k.held) <= c.r + 1
    BY <1>2, <2>1
  <2>3. QED BY <1>2, <1>3, <1>4, <2>2 DEF Safe
<1>5. QED BY <1>3, <1>4 DEF Safely, c

-----------------------------------------------------------------------------
(* The messages of a frame. *)

MessagesType ==
  /\ messages \in Seq(Message)
  /\ \A m \in DOMAIN messages : Length(m) \in Shortest(messages[m].segment)..MaxLength

LEMMA MessageFacts ==
  ASSUME MessagesType, NEW m \in DOMAIN messages
  PROVE  /\ m \in Nat \ {0} /\ m <= Len(messages) /\ Len(messages) \in Nat
         /\ messages[m].segment \in Segments /\ messages[m].opcode \in Opcodes
         /\ messages[m].last \in Nat /\ First(m) \in Nat \ {0}
         /\ Length(m) \in Nat /\ Length(m) >= 2 /\ First(m) + 1 <= messages[m].last
         /\ Length(m) = (messages[m].last + 1) - First(m)
         /\ messages[m].last + 1 = First(m) + Length(m)
         /\ messages[m].segment = "gameEvent" => Length(m) >= 4
         /\ messages[m].segment = "keepalive" => Length(m) >= 3
<1>1. /\ messages \in Seq(Message) /\ Len(messages) \in Nat /\ DOMAIN messages = 1..Len(messages)
      /\ Length(m) \in Shortest(messages[m].segment)..MaxLength
  BY DEF MessagesType
<1>2. m \in Nat \ {0} /\ m <= Len(messages) /\ m \in 1..Len(messages)
  BY <1>1
<1>3. \A k \in 1..Len(messages) : messages[k] \in Message
  BY <1>1, ElementOfSeq, Zenon
<1>4. \A k \in 1..Len(messages) : messages[k].last \in Nat
  <2>1. 1..MaxMessages * MaxLength \subseteq Nat
    OBVIOUS
  <2>2. QED BY <1>3, <2>1 DEF Message
<1>5. First(m) \in Nat \ {0}
  <2>1. CASE m = 1
    BY <2>1 DEF First
  <2>2. CASE m # 1
    <3>1. m - 1 \in 1..Len(messages) /\ First(m) = messages[m - 1].last + 1
      BY <1>1, <1>2, <2>2 DEF First
    <3>2. messages[m - 1].last \in Nat
      BY <1>4, <3>1
    <3>3. QED BY <3>1, <3>2
  <2>3. QED BY <2>1, <2>2
<1>6. messages[m].segment \in Segments /\ messages[m].opcode \in Opcodes
  BY <1>2, <1>3 DEF Message
<1>7. /\ Shortest(messages[m].segment) \in Nat /\ Shortest(messages[m].segment) >= 2
      /\ messages[m].segment = "gameEvent" => Shortest(messages[m].segment) = 4
      /\ messages[m].segment = "keepalive" => Shortest(messages[m].segment) = 3
  BY <1>6 DEF Shortest, Segments, HeaderLength, GameEventHeader, KeepaliveHeader
<1>8. MaxLength \in Nat
  BY DispatchAssumption
<1>9. /\ Length(m) \in Nat /\ Length(m) >= 2
      /\ messages[m].segment = "gameEvent" => Length(m) >= 4
      /\ messages[m].segment = "keepalive" => Length(m) >= 3
  BY <1>1, <1>7, <1>8
<1>10. Length(m) = (messages[m].last + 1) - First(m)
  BY DEF Length
<1>11. messages[m].last \in Nat
  BY <1>2, <1>4
<1>12. \A l, f, k \in Nat : k = (l + 1) - f => l + 1 = f + k /\ (k >= 2 => f + 1 <= l)
  OBVIOUS
<1>13. messages[m].last + 1 = First(m) + Length(m) /\ First(m) + 1 <= messages[m].last
  BY <1>5, <1>9, <1>10, <1>11, <1>12
<1>14. QED BY <1>1, <1>2, <1>5, <1>6, <1>9, <1>10, <1>11, <1>13

(* A set of natural numbers has a least element. *)
LEMMA LeastNat ==
  ASSUME NEW T \in SUBSET Nat, T # {}
  PROVE  \E x \in T : \A y \in T : x <= y
<1> DEFINE R == OpToRel(<, Nat)
<1>1. \A x, y \in Nat : x < y => <<x, y>> \in R
  BY DEF OpToRel
<1>2. IsWellFoundedOn(R, Nat)
  BY NatLessThanWellFounded
<1> HIDE DEF R
<1>3. PICK x \in T : \A y \in T : ~(<<y, x>> \in R)
  BY <1>2, WFMin
<1>4. \A y \in T : x <= y
  <2>1. TAKE y \in T
  <2>2. x \in Nat /\ y \in Nat /\ ~(y < x)
    BY <1>1, <1>3
  <2>3. QED BY <2>2
<1>5. QED BY <1>4

(* The messages follow one another. *)
LEMMA MessageOrder ==
  ASSUME MessagesType, NEW i \in DOMAIN messages, NEW j \in DOMAIN messages, i < j
  PROVE  messages[i].last < First(j)
<1> DEFINE T == {k \in DOMAIN messages : i < k /\ ~(messages[i].last < First(k))}
<1>1. \A k \in DOMAIN messages : k \in Nat \ {0} /\ messages[k].last \in Nat /\ First(k) \in Nat
  BY MessageFacts
<1>2. DOMAIN messages = 1..Len(messages) /\ Len(messages) \in Nat
  BY DEF MessagesType
<1>3. SUFFICES ASSUME j \in T PROVE FALSE
  OBVIOUS
<1>4. PICK k \in T : \A y \in T : k <= y
  <2>1. T \in SUBSET Nat /\ T # {}
    BY <1>1, <1>3
  <2> HIDE DEF T
  <2>2. QED BY <2>1, LeastNat
<1>5. k \in DOMAIN messages /\ k # 1 /\ i < k /\ ~(messages[i].last < First(k)) /\ i \in Nat \ {0}
  BY <1>1
<1>6. /\ k - 1 \in DOMAIN messages /\ k - 1 \in Nat /\ ~(k <= k - 1)
      /\ First(k) = messages[k - 1].last + 1
  BY <1>1, <1>2, <1>5 DEF First
<1>7. CASE i = k - 1
  BY <1>1, <1>5, <1>6, <1>7
<1>8. CASE i # k - 1
  <2>1. i < k - 1
    BY <1>1, <1>5, <1>6, <1>8
  <2>2. messages[i].last < First(k - 1)
    BY <1>4, <1>6, <2>1
  <2>3. First(k - 1) + 1 <= messages[k - 1].last
    BY <1>6, MessageFacts
  <2>4. QED BY <1>1, <1>5, <1>6, <2>2, <2>3
<1>9. QED BY <1>7, <1>8

LEMMA SameMessage ==
  ASSUME MessagesType, NEW i \in DOMAIN messages, NEW j \in DOMAIN messages, First(i) = First(j)
  PROVE  i = j
<1>1. \A k \in DOMAIN messages :
        k \in Nat /\ messages[k].last \in Nat /\ First(k) \in Nat /\ First(k) + 1 <= messages[k].last
  BY MessageFacts
<1>2. ~(i < j)
  BY <1>1, MessageOrder
<1>3. ~(j < i)
  BY <1>1, MessageOrder
<1>4. QED BY <1>1, <1>2, <1>3

(* A message owns its cells. *)
LEMMA OwnerIs ==
  ASSUME MessagesType, NEW m \in DOMAIN messages, NEW i \in Nat, i <= Length(m)
  PROVE  Owner(First(m) + i - 1, i) = {m}
<1>1. \A k \in DOMAIN messages : First(k) \in Nat
  BY MessageFacts
<1>2. ASSUME NEW k \in DOMAIN messages, First(m) + i - 1 = First(k) + i - 1 PROVE k = m
  <2>1. First(k) = First(m)
    BY <1>1, <1>2
  <2>2. QED BY <2>1, SameMessage
<1>3. QED BY <1>2 DEF Owner

(* What an owner of a cell is. *)
LEMMA OwnerFacts ==
  ASSUME MessagesType, NEW c, NEW i, NEW m \in Owner(c, i)
  PROVE  m \in DOMAIN messages /\ i <= Length(m) /\ c = First(m) + i - 1
BY DEF Owner

-----------------------------------------------------------------------------
(* Decoding. *)

HeaderType == [message : Nat, length : Nat, segment : Segments]

LEMMA CanPeekIs ==
  ASSUME NEW b, ReaderOK(b), NEW n \in Int
  PROVE  CanPeek(b, n) <=> n <= (b.end + 1) - At(b) /\ n <= BufferSize
<1>1. /\ b.next \in Nat /\ b.end \in Nat /\ Buffered(b) \in Nat /\ Behind(b) \in Nat
      /\ Behind(b) = (b.end + 1) - b.next /\ At(b) = b.next - Buffered(b) /\ Room(b) = BufferSize
  BY ReaderFacts DEF ReaderOK
<1>2. Buffered(b) + Behind(b) = (b.end + 1) - At(b)
  BY <1>1
<1>3. QED BY <1>1, <1>2 DEF CanPeek

(* What Decode reads of a header, and where it leaves the reader. *)
LEMMA HeaderFacts ==
  ASSUME MessagesType, NEW b, ReaderOK(b), NEW h \in DecodeHeader(b)
  PROVE  /\ ReaderOK(AfterHeader(b)) /\ At(AfterHeader(b)) = At(b) + 2
         /\ AfterHeader(b).end = b.end /\ Behind(AfterHeader(b)) = Behind(Peek(b, 2))
         /\ h \in HeaderType
         /\ h.message # 0 =>
              /\ h.message \in DOMAIN messages /\ First(h.message) = At(b)
              /\ h.length = Length(h.message)
         /\ \A m \in DOMAIN messages : First(m) = At(b) =>
              h.message = m /\ h.length = Length(m) /\ h.segment = messages[m].segment
<1> DEFINE p == Peek(b, 2)
           a == p.buf[p.r + 1]
           c == p.buf[p.r + 2]
           own == Owner(a, 1) \cap Owner(c, 2)
<1>1. /\ CanPeek(b, 2)
      /\ h \in [message : IF own = {} THEN {0} ELSE own, length : LengthAt(a), segment : SegmentAt(c)]
  BY DEF DecodeHeader, HeaderLength
<1>2. ReaderOK(p) /\ At(p) = At(b) /\ p.end = b.end /\ 2 <= Buffered(p)
  BY <1>1, PeekKeeps
<1>3. Buffered(p) \in Nat /\ At(b) \in Nat \ {0}
  BY <1>2, ReaderFacts DEF ReaderOK
<1>4. a = At(b) /\ c = At(b) + 1
  <2>1. \A i \in 1..Buffered(p) : p.buf[p.r + i] = At(b) + i - 1
    BY <1>2 DEF ReaderOK, Reads
  <2>2. 1 \in 1..Buffered(p) /\ 2 \in 1..Buffered(p)
    BY <1>2, <1>3
  <2>3. p.buf[p.r + 1] = At(b) + 1 - 1 /\ p.buf[p.r + 2] = At(b) + 2 - 1
    BY <2>1, <2>2
  <2>4. QED BY <1>3, <2>3
<1>5. /\ AfterHeader(b) = Discard(p, 2)
      /\ ReaderOK(AfterHeader(b)) /\ At(AfterHeader(b)) = At(b) + 2 /\ AfterHeader(b).end = b.end
      /\ Behind(AfterHeader(b)) = Behind(p)
  <2>1. AfterHeader(b) = Discard(p, 2)
    BY DEF AfterHeader, HeaderLength
  <2>2. QED BY <1>2, <2>1, DiscardKeeps
<1> HIDE DEF p, a, c
<1>6. /\ h.message = 0 \/ h.message \in own
      /\ own # {} => h.message \in own
      /\ h.length \in LengthAt(a) /\ h.segment \in SegmentAt(c)
      /\ h = [message |-> h.message, length |-> h.length, segment |-> h.segment]
  BY <1>1
<1>7. \A k \in Owner(a, 1) : k \in DOMAIN messages /\ First(k) = At(b)
  <2>1. TAKE k \in Owner(a, 1)
  <2>2. k \in DOMAIN messages /\ a = First(k) + 1 - 1
    BY OwnerFacts
  <2>3. First(k) \in Nat
    BY <2>2, MessageFacts
  <2>4. QED BY <1>4, <2>2, <2>3
<1>8. ASSUME NEW m \in DOMAIN messages, First(m) = At(b)
      PROVE  Owner(a, 1) = {m} /\ Owner(c, 2) = {m}
  <2>1. First(m) \in Nat /\ Length(m) \in Nat /\ 2 <= Length(m)
    BY MessageFacts
  <2>2. a = First(m) + 1 - 1 /\ c = First(m) + 2 - 1 /\ 1 <= Length(m)
    BY <1>4, <1>8, <2>1
  <2>3. QED BY <2>1, <2>2, OwnerIs
<1>9. ASSUME NEW m \in DOMAIN messages, First(m) = At(b)
      PROVE  h.message = m /\ h.length = Length(m) /\ h.segment = messages[m].segment
  BY <1>6, <1>8, <1>9 DEF LengthAt, SegmentAt
<1>10. h.message # 0 =>
         /\ h.message \in DOMAIN messages /\ First(h.message) = At(b)
         /\ h.length = Length(h.message)
  BY <1>6, <1>7, <1>9
<1>11. h.message \in Nat
  BY <1>10, MessageFacts
<1>12. h.length \in Nat
  <2>1. CASE Owner(a, 1) = {}
    <3>1. h.length \in 0..MaxLength
      BY <1>6, <2>1 DEF LengthAt
    <3>2. QED BY <3>1
  <2>2. CASE Owner(a, 1) # {}
    <3>1. PICK m \in Owner(a, 1) : h.length = Length(m)
      BY <1>6, <2>2 DEF LengthAt
    <3>2. QED BY <1>7, <3>1, MessageFacts
  <2>3. QED BY <2>1, <2>2
<1>13. h.segment \in Segments
  <2>1. CASE Owner(c, 2) = {}
    BY <1>6, <2>1 DEF SegmentAt
  <2>2. CASE Owner(c, 2) # {}
    <3>1. PICK m \in Owner(c, 2) : h.segment = messages[m].segment
      BY <1>6, <2>2 DEF SegmentAt
    <3>2. QED BY <3>1, OwnerFacts, MessageFacts
  <2>3. QED BY <2>1, <2>2
<1>14. h \in HeaderType
  BY <1>6, <1>11, <1>12, <1>13 DEF HeaderType
<1>15. QED BY <1>5, <1>9, <1>10, <1>14 DEF p

(* Why DecodeHeader fails. *)
LEMMA HeaderThere ==
  ASSUME MessagesType, NEW b, ReaderOK(b), b.end >= At(b) + 1
  PROVE  DecodeHeader(b) # {}
<1> DEFINE p == Peek(b, 2)
           a == p.buf[p.r + 1]
           c == p.buf[p.r + 2]
           own == Owner(a, 1) \cap Owner(c, 2)
           M == IF own = {} THEN {0} ELSE own
<1>1. b.end \in Nat /\ At(b) \in Nat /\ BufferSize \in Nat /\ BufferSize >= 2
  BY ReaderFacts DEF ReaderOK
<1>2. CanPeek(b, 2)
  BY <1>1, CanPeekIs
<1>3. DecodeHeader(b) = [message : M, length : LengthAt(a), segment : SegmentAt(c)]
  BY <1>2 DEF DecodeHeader, HeaderLength
<1> HIDE DEF a, c
<1>4. PICK x : x \in M
  OBVIOUS
<1>5. PICK y : y \in LengthAt(a)
  <2>1. CASE Owner(a, 1) = {}
    <3>1. 0 \in 0..MaxLength
      BY DispatchAssumption
    <3>2. QED BY <2>1, <3>1 DEF LengthAt
  <2>2. CASE Owner(a, 1) # {}
    BY <2>2 DEF LengthAt
  <2>3. QED BY <2>1, <2>2
<1>6. PICK z : z \in SegmentAt(c)
  <2>1. CASE Owner(c, 2) = {}
    BY <2>1 DEF SegmentAt, Segments
  <2>2. CASE Owner(c, 2) # {}
    BY <2>2 DEF SegmentAt
  <2>3. QED BY <2>1, <2>2
<1> HIDE DEF M
<1>7. [message |-> x, length |-> y, segment |-> z] \in DecodeHeader(b)
  BY <1>3, <1>4, <1>5, <1>6
<1>8. QED BY <1>7

LEMMA SliceFacts ==
  ASSUME NEW b, ReaderOK(b), NEW skip \in Nat, NEW n \in Nat, skip <= n, n <= Buffered(b)
  PROVE  Slice(b, skip, n) \in SliceType /\ Safe(Slice(b, skip, n), Discard(b, n))
<1> DEFINE s == [i \in 1..n - skip |-> b.buf[b.r + skip + i]]
<1>1. /\ b.r \in Nat /\ b.w \in Nat /\ b.w <= BufferSize /\ b.r <= b.w /\ Buffered(b) = b.w - b.r
      /\ b.buf \in [1..BufferSize -> Nat] /\ BufferSize \in Nat
  BY ReaderFacts DEF ReaderOK
<1>2. n - skip \in Nat
  OBVIOUS
<1>3. ASSUME NEW i \in 1..n - skip PROVE b.buf[b.r + skip + i] \in Nat
  <2>1. i \in Nat /\ 1 <= i /\ skip + i <= n
    OBVIOUS
  <2>2. b.r + skip + i \in 1..BufferSize
    <3>1. \A r, w \in Nat : r <= w /\ w <= BufferSize /\ n <= w - r => r + skip + i \in 1..BufferSize
      BY <1>1, <2>1
    <3>2. QED BY <1>1, <3>1
  <2>3. QED BY <1>1, <2>2
<1>4. s \in Seq(Nat)
  BY <1>2, <1>3
<1>5. DOMAIN s = 1..n - skip
  OBVIOUS
<1>6. \A i \in 1..n - skip : b.r + skip + 1 + i - 1 = b.r + skip + i
  BY <1>1
<1>7. Slice(b, skip, n) = [from |-> b.r + skip + 1, front |-> Front(b), held |-> s]
  BY DEF Slice
<1>8. b.r + skip + 1 \in Nat \ {0} /\ Front(b) \in Int
  <2>1. b.next \in Nat /\ Front(b) = b.next - b.w
    BY ReaderFacts DEF Front, ReaderOK
  <2>2. QED BY <1>1, <2>1
<1>12. Len(s) = n - skip
  BY <1>2
<1> HIDE DEF s
<1>9. Slice(b, skip, n) \in SliceType
  BY <1>4, <1>7, <1>8 DEF SliceType
<1>10. \A i \in DOMAIN s : b.buf[b.r + skip + 1 + i - 1] = s[i]
  BY <1>5, <1>6 DEF s
<1>11. Safe(Slice(b, skip, n), Discard(b, n))
  <2>1. b \in [buf : [1..BufferSize -> Nat], r : Nat, w : Nat, next : Nat, end : Nat]
    BY DEF ReaderOK, ReaderType
  <2> DEFINE c == Discard(b, n)
             k == Slice(b, skip, n)
  <2>2. c.buf = b.buf /\ c.r = b.r + n /\ Front(c) = Front(b)
    BY <2>1 DEF Discard, Front
  <2>3. k.from = b.r + skip + 1 /\ k.front = Front(b) /\ k.held = s
    BY <1>7
  <2> HIDE DEF c, k
  <2>4. k.from + Len(k.held) <= c.r + 1
    BY <1>1, <1>12, <2>2, <2>3
  <2>5. Holding(k, c.buf)
    BY <1>10, <2>2, <2>3 DEF Holding
  <2>6. k.front = Front(c) /\ Front(c) \in Int
    BY <1>8, <2>2, <2>3
  <2>7. QED BY <2>4, <2>5, <2>6 DEF Safe, c, k
<1>13. QED BY <1>9, <1>11

LEMMA OpcodeFacts ==
  ASSUME MessagesType, NEW c
  PROVE  OpcodeAt(c) \subseteq Opcodes
<1>1. \A m \in Owner(c, 3) : messages[m].opcode \in Opcodes
  BY OwnerFacts, MessageFacts
<1>2. QED BY <1>1 DEF OpcodeAt

(* What Decode finds behind a header that is long enough. *)
LEMMA ResultFacts ==
  ASSUME MessagesType, NEW p, ReaderOK(p), NEW h \in HeaderType, h.length >= 2,
         h.length - 2 <= Buffered(p), NEW slices, NEW d \in Result(h, p, slices)
  PROVE  /\ d.result = "message" /\ d.opcode \in Opcodes /\ d.message \in {0, h.message}
         /\ d.slices = slices /\ d.reader = Discard(p, h.length - 2)
         /\ ReaderOK(d.reader) /\ At(d.reader) = At(p) + (h.length - 2)
         /\ d.reader.end = p.end /\ d.reader.buf = p.buf
         /\ \A m \in DOMAIN messages :
              At(p) = First(m) + 2 /\ h.message = m /\ h.length = Length(m) /\ Length(m) >= 3 =>
                d.message = m /\ d.opcode = messages[m].opcode
<1>1. /\ d.result = "message" /\ d.message = Found(h, p) /\ d.opcode \in OpcodeAt(p.buf[p.r + 1])
      /\ d.slices = slices /\ d.reader = Discard(p, h.length - 2)
  BY DEF Result, Following, HeaderLength
<1>2. h.length \in Nat /\ h.message \in Nat /\ h.length - 2 \in Nat
  <2>1. h.length \in Nat /\ h.message \in Nat
    BY DEF HeaderType
  <2>2. QED BY <2>1
<1>3. /\ ReaderOK(d.reader) /\ At(d.reader) = At(p) + (h.length - 2) /\ d.reader.end = p.end
  BY <1>1, <1>2, DiscardKeeps
<1>4. d.reader.buf = p.buf
  <2>1. p \in [buf : [1..BufferSize -> Nat], r : Nat, w : Nat, next : Nat, end : Nat]
    BY DEF ReaderOK, ReaderType
  <2>2. QED BY <1>1, <2>1 DEF Discard
<1>5. d.message \in {0, h.message}
  BY <1>1 DEF Found
<1>6. ASSUME NEW m \in DOMAIN messages, At(p) = First(m) + 2, h.message = m, h.length = Length(m),
             Length(m) >= 3
      PROVE  d.message = m /\ d.opcode = messages[m].opcode
  <2>1. m # 0 /\ First(m) \in Nat /\ Length(m) \in Nat
    BY MessageFacts
  <2>2. \A i \in 1..Buffered(p) : p.buf[p.r + i] = First(m) + 2 + i - 1
    BY <1>6 DEF ReaderOK, Reads
  <2>3. Buffered(p) \in Nat
    BY ReaderFacts DEF ReaderOK
  <2>4. \A i \in 1..Length(m) - 2 : i \in 1..Buffered(p)
    BY <1>6, <2>1, <2>3
  <2>5. d.message = m
    <3>1. \A i \in 1..h.length - 2 : p.buf[p.r + i] = First(h.message) + 2 + i - 1
      BY <1>6, <2>2, <2>4
    <3>2. QED BY <1>1, <1>6, <2>1, <3>1 DEF Found, Following, HeaderLength
  <2>6. p.buf[p.r + 1] = First(m) + 3 - 1
    <3>1. 1 \in 1..Length(m) - 2
      BY <1>6, <2>1
    <3>2. p.buf[p.r + 1] = First(m) + 2 + 1 - 1
      BY <2>2, <2>4, <3>1
    <3>3. QED BY <2>1, <3>2
  <2>7. Owner(p.buf[p.r + 1], 3) = {m}
    BY <1>6, <2>1, <2>6, OwnerIs
  <2>8. QED BY <1>1, <2>5, <2>7 DEF OpcodeAt
<1>7. d.opcode \in Opcodes
  BY <1>1, OpcodeFacts
<1>8. QED BY <1>1, <1>3, <1>4, <1>5, <1>6, <1>7

(* What Decode makes of a header and the reader behind it.                 *)
LEMMA RestFacts ==
  ASSUME MessagesType, NEW b, ReaderOK(b), NEW h \in HeaderType,
         NEW segment, NEW d \in DecodeRest(segment, h, b)
  PROVE  /\ d.result \in {"message", "error", "panic"}
         /\ ReaderOK(d.reader) /\ d.reader.end = b.end
         /\ d.result # "error" => Safely(b, d.reader)
         /\ d.result = "message" =>
              /\ d.opcode \in Opcodes /\ d.message \in {0, h.message}
              /\ d.message # 0 => At(d.reader) = At(b) + (h.length - 2)
              /\ At(d.reader) >= At(b)
              /\ d.slices \in Seq(SliceType)
              /\ \A i \in DOMAIN d.slices : Safe(d.slices[i], d.reader)
<1> DEFINE n == h.length - 2
           p == Peek(b, n)
<1>1. h.length \in Nat /\ h.message \in Nat /\ n \in Int /\ Following(h.length) = n
  <2>1. h.length \in Nat /\ h.message \in Nat
    BY DEF HeaderType
  <2>2. QED BY <2>1 DEF Following, HeaderLength
<1>2. ReaderOK(p) /\ At(p) = At(b) /\ p.end = b.end /\ (CanPeek(b, n) => n <= Buffered(p))
  BY <1>1, PeekKeeps
<1>3. At(p) \in Nat /\ Buffered(p) \in Nat
  BY <1>2, ReaderFacts DEF ReaderOK
<1> HIDE DEF n, p
<1>0. n = h.length - 2 /\ p = Peek(b, n) /\ p = Peek(b, h.length - 2)
  BY DEF n, p
<1>4. ASSUME ~Holds(h, b) PROVE d = [result |-> "error", reader |-> p]
  BY <1>0, <1>1, <1>4 DEF DecodeRest
<1>5. ASSUME Holds(h, b) PROVE CanPeek(b, n) /\ h.length >= 2 /\ n \in Nat /\ n <= Buffered(p) /\ Safely(b, p)
  <2>1. CanPeek(b, n) /\ h.length >= 2
    BY <1>1, <1>5 DEF Holds, HeaderLength
  <2>2. Safely(b, p)
    BY <1>0, <1>1, <2>1, PeekSafely
  <2>3. QED BY <1>0, <1>1, <1>2, <2>1, <2>2
(* The outcomes of both methods. *)
<1>6. ASSUME Holds(h, b)
      PROVE  \/ d = [result |-> "panic", reader |-> p]
             \/ \E o \in Opcodes :
                  d = [result |-> "message", message |-> 0, opcode |-> o, slices |-> <<>>, reader |-> p]
             \/ d \in Result(h, p, <<>>)
             \/ n >= 2 /\ d \in Result(h, p, <<Slice(p, 2, n)>>)
  <2>1. d \in IF segment = "gameEvent" THEN GameEventOf(h, b) ELSE KeepaliveOf(h, b)
    BY <1>6 DEF DecodeRest
  <2>2. CASE d \in GameEventOf(h, b)
    <3>1. d \in IF n < 2 THEN {[result |-> "panic", reader |-> p]}
                ELSE Result(h, p, <<Slice(p, 2, n)>>)
      BY <1>0, <1>1, <2>2 DEF GameEventOf, GameEventHeader
    <3>2. QED BY <1>1, <3>1
  <2>3. CASE d \in KeepaliveOf(h, b)
    <3>1. d \in IF n < 1
                THEN {[result |-> "panic", reader |-> p]} \cup
                     {[result |-> "message", message |-> 0, opcode |-> o, slices |-> <<>>,
                       reader |-> p] : o \in Opcodes}
                ELSE Result(h, p, <<>>)
      BY <1>0, <1>1, <2>3 DEF KeepaliveOf, KeepaliveHeader
    <3>2. QED BY <3>1
  <2>4. QED BY <2>1, <2>2, <2>3
<1>7. CASE ~Holds(h, b)
  <2>1. d.result = "error" /\ d.reader = p
    BY <1>4, <1>7
  <2>2. QED BY <1>2, <2>1
<1>8. CASE Holds(h, b) /\ d = [result |-> "panic", reader |-> p]
  <2>1. d.result = "panic" /\ d.reader = p
    BY <1>8
  <2>2. QED BY <1>0, <1>2, <1>5, <1>8, <2>1
<1>9. ASSUME Holds(h, b), NEW o \in Opcodes,
             d = [result |-> "message", message |-> 0, opcode |-> o, slices |-> <<>>, reader |-> p]
      PROVE  /\ d.result = "message" /\ d.opcode \in Opcodes /\ d.message = 0
             /\ d.slices = <<>> /\ d.reader = p
  BY <1>9
<1>10. ASSUME Holds(h, b), NEW slices, d \in Result(h, p, slices)
       PROVE  /\ d.result = "message" /\ d.opcode \in Opcodes /\ d.message \in {0, h.message}
              /\ d.slices = slices /\ d.reader = Discard(p, n)
              /\ ReaderOK(d.reader) /\ At(d.reader) = At(p) + n
              /\ d.reader.end = p.end /\ d.reader.buf = p.buf
  BY <1>0, <1>2, <1>5, <1>10, ResultFacts
<1>11. ASSUME Holds(h, b) PROVE Safely(b, Discard(p, n))
  <2>1. Safely(b, p) /\ n \in Nat
    BY <1>5, <1>11
  <2>2. Safely(p, Discard(p, n))
    BY <1>2, <2>1, DiscardSafely
  <2>3. QED BY <2>1, <2>2, SafelyTwice
<1>12. <<>> \in Seq(SliceType) /\ \A i \in DOMAIN <<>> : Safe(<<>>[i], d.reader)
  OBVIOUS
<1>13. CASE Holds(h, b) /\ \E o \in Opcodes :
                  d = [result |-> "message", message |-> 0, opcode |-> o, slices |-> <<>>, reader |-> p]
  <2>1. /\ d.result = "message" /\ d.opcode \in Opcodes /\ d.message = 0
        /\ d.slices = <<>> /\ d.reader = p
    BY <1>9, <1>13
  <2>2. At(p) >= At(b)
    BY <1>2, <1>3
  <2>3. QED BY <1>0, <1>2, <1>5, <1>12, <1>13, <2>1, <2>2
<1>14. ASSUME Holds(h, b), NEW slices, d \in Result(h, p, slices),
              slices \in Seq(SliceType), \A i \in DOMAIN slices : Safe(slices[i], Discard(p, n))
       PROVE  /\ d.result = "message" /\ ReaderOK(d.reader) /\ d.reader.end = b.end
              /\ Safely(b, d.reader)
              /\ d.opcode \in Opcodes /\ d.message \in {0, h.message}
              /\ d.message # 0 => At(d.reader) = At(b) + (h.length - 2)
              /\ At(d.reader) >= At(b)
              /\ d.slices \in Seq(SliceType)
              /\ \A i \in DOMAIN d.slices : Safe(d.slices[i], d.reader)
  <2>1. At(p) + n >= At(b)
    BY <1>2, <1>3, <1>5, <1>14
  <2>2. QED BY <1>0, <1>2, <1>5, <1>10, <1>11, <1>14, <2>1
<1>15. CASE Holds(h, b) /\ d \in Result(h, p, <<>>)
  <2>1. <<>> \in Seq(SliceType) /\ \A i \in DOMAIN <<>> : Safe(<<>>[i], Discard(p, n))
    OBVIOUS
  <2>2. QED BY <1>14, <1>15, <2>1
<1>16. CASE Holds(h, b) /\ n >= 2 /\ d \in Result(h, p, <<Slice(p, 2, n)>>)
  <2>1. Slice(p, 2, n) \in SliceType /\ Safe(Slice(p, 2, n), Discard(p, n))
    BY <1>2, <1>5, <1>16, SliceFacts
  <2> DEFINE k == Slice(p, 2, n)
  <2> HIDE DEF k
  <2>2. DOMAIN <<k>> = {1} /\ <<k>> \in Seq(SliceType) /\ \A i \in DOMAIN <<k>> : <<k>>[i] = k
    BY <2>1 DEF k
  <2>3. \A i \in DOMAIN <<k>> : Safe(<<k>>[i], Discard(p, n))
    BY <2>1, <2>2 DEF k
  <2>4. d \in Result(h, p, <<k>>)
    BY <1>16 DEF k
  <2>5. QED BY <1>14, <1>16, <2>2, <2>3, <2>4
<1>17. QED BY <1>6, <1>7, <1>8, <1>13, <1>15, <1>16

(* Behind the header of a message is the rest of that message. *)
LEMMA RestFinds ==
  ASSUME MessagesType, NEW b, ReaderOK(b), NEW h \in HeaderType, NEW m \in DOMAIN messages,
         h.message = m, h.length = Length(m), At(b) = First(m) + 2,
         messages[m].segment # "session", messages[m].last <= b.end, Fits(m),
         NEW d \in DecodeRest(messages[m].segment, h, b)
  PROVE  /\ d.result = "message" /\ d.message = m /\ d.opcode = messages[m].opcode
         /\ ReaderOK(d.reader) /\ At(d.reader) = messages[m].last + 1
<1> DEFINE n == Length(m) - 2
           p == Peek(b, n)
<1>1. /\ First(m) \in Nat /\ Length(m) \in Nat /\ messages[m].last \in Nat
      /\ messages[m].last + 1 = First(m) + Length(m)
      /\ messages[m].segment \in {"gameEvent", "keepalive"} /\ Length(m) >= 3
      /\ messages[m].segment = "gameEvent" => Length(m) >= 4
  BY MessageFacts DEF Segments
<1>2. b.end \in Nat /\ At(b) \in Nat /\ BufferSize \in Nat
  BY ReaderFacts DEF ReaderOK
<1>3. n \in Nat /\ n <= (b.end + 1) - At(b) /\ n <= BufferSize /\ n >= 1
  <2>1. Length(m) <= 2 + BufferSize
    BY DEF Fits, HeaderLength
  <2>2. QED BY <1>1, <1>2, <2>1
<1>4. CanPeek(b, n) /\ Following(h.length) = n /\ h.length - 2 = n
  BY <1>3, CanPeekIs DEF Following, HeaderLength
<1>5. Holds(h, b)
  BY <1>1, <1>4 DEF Holds, HeaderLength
<1>6. ReaderOK(p) /\ At(p) = At(b) /\ n <= Buffered(p)
  BY <1>3, <1>4, PeekKeeps
<1> HIDE DEF n
<1>7. PICK slices : d \in Result(h, p, slices)
  <2>1. CASE messages[m].segment = "gameEvent"
    <3>1. d \in GameEventOf(h, b)
      BY <1>5, <2>1 DEF DecodeRest
    <3>2. ~(n < 2)
      BY <1>1, <2>1 DEF n
    <3>3. d \in Result(h, p, <<Slice(p, 2, n)>>)
      BY <1>4, <3>1, <3>2 DEF GameEventOf, GameEventHeader
    <3>4. QED BY <3>3
  <2>2. CASE messages[m].segment # "gameEvent"
    <3>1. d \in KeepaliveOf(h, b)
      BY <1>5, <2>2 DEF DecodeRest
    <3>2. ~(n < 1)
      BY <1>3
    <3>3. d \in Result(h, p, <<>>)
      BY <1>4, <3>1, <3>2 DEF KeepaliveOf, KeepaliveHeader
    <3>4. QED BY <3>3
  <2>3. QED BY <2>1, <2>2
<1> HIDE DEF p
<1>8. /\ d.result = "message" /\ ReaderOK(d.reader) /\ At(d.reader) = At(p) + n
      /\ d.message = m /\ d.opcode = messages[m].opcode
  <2>1. h.length >= 2 /\ h.length - 2 <= Buffered(p) /\ At(p) = First(m) + 2
    BY <1>1, <1>4, <1>6
  <2>2. QED BY <1>1, <1>4, <1>6, <1>7, <2>1, ResultFacts
<1>9. At(d.reader) = messages[m].last + 1
  BY <1>1, <1>6, <1>8 DEF n
<1>10. QED BY <1>8, <1>9

(* What Decode returns, wherever the reader is. *)
LEMMA DecodeFacts ==
  ASSUME MessagesType, NEW b, ReaderOK(b), NEW segment, NEW d \in DecodeAs(segment, b)
  PROVE  /\ d.result \in {"message", "error", "panic"}
         /\ ReaderOK(d.reader) /\ d.reader.end = b.end
         /\ d.result # "error" => Safely(b, d.reader)
         /\ d.result = "message" =>
              /\ d.opcode \in Opcodes /\ d.message \in Nat
              /\ d.message # 0 =>
                   /\ d.message \in DOMAIN messages /\ First(d.message) = At(b)
                   /\ At(d.reader) = messages[d.message].last + 1
              /\ At(d.reader) >= At(b)
              /\ d.slices \in Seq(SliceType)
              /\ \A i \in DOMAIN d.slices : Safe(d.slices[i], d.reader)
<1>1. CASE DecodeHeader(b) = {}
  <2>1. d = [result |-> "error", reader |-> Peek(b, 2)]
    BY <1>1 DEF DecodeAs, HeaderLength
  <2>2. d.result = "error" /\ d.reader = Peek(b, 2)
    BY <2>1
  <2>3. QED BY <2>2, PeekKeeps
<1>2. CASE DecodeHeader(b) # {}
  <2> DEFINE c == AfterHeader(b)
  <2>1. PICK h \in DecodeHeader(b) : d \in DecodeRest(segment, h, c)
    BY <1>2 DEF DecodeAs
  <2>2. /\ ReaderOK(c) /\ At(c) = At(b) + 2 /\ c.end = b.end
        /\ h \in HeaderType
        /\ h.message # 0 =>
             h.message \in DOMAIN messages /\ First(h.message) = At(b) /\ h.length = Length(h.message)
    BY HeaderFacts
  <2>3. CanPeek(b, 2)
    BY DEF DecodeHeader, HeaderLength
  <2>4. Safely(b, c)
    <3>1. Safely(b, Peek(b, 2))
      BY <2>3, PeekSafely
    <3>2. ReaderOK(Peek(b, 2))
      BY PeekKeeps
    <3>3. Safely(Peek(b, 2), Discard(Peek(b, 2), 2))
      BY <3>2, DiscardSafely
    <3>4. QED BY <3>1, <3>3, SafelyTwice DEF AfterHeader, HeaderLength
  <2> HIDE DEF c
  <2>5. /\ d.result \in {"message", "error", "panic"}
        /\ ReaderOK(d.reader) /\ d.reader.end = c.end
        /\ d.result # "error" => Safely(c, d.reader)
        /\ d.result = "message" =>
             /\ d.opcode \in Opcodes /\ d.message \in {0, h.message}
             /\ d.message # 0 => At(d.reader) = At(c) + (h.length - 2)
             /\ At(d.reader) >= At(c)
             /\ d.slices \in Seq(SliceType)
             /\ \A i \in DOMAIN d.slices : Safe(d.slices[i], d.reader)
    BY <2>1, <2>2, RestFacts
  <2>6. d.result # "error" => Safely(b, d.reader)
    BY <2>4, <2>5, SafelyTwice
  <2>7. ASSUME d.result = "message"
        PROVE  /\ d.message \in Nat
               /\ d.message # 0 =>
                    /\ d.message \in DOMAIN messages /\ First(d.message) = At(b)
                    /\ At(d.reader) = messages[d.message].last + 1
               /\ At(d.reader) >= At(b)
    <3>1. h.message \in Nat
      BY <2>2 DEF HeaderType
    <3>2. At(b) \in Nat /\ At(d.reader) \in Nat
      BY <2>5 DEF ReaderOK
    <3>3. ASSUME d.message # 0
          PROVE  /\ d.message \in DOMAIN messages /\ First(d.message) = At(b)
                 /\ At(d.reader) = messages[d.message].last + 1
      <4>1. /\ d.message = h.message /\ d.message \in DOMAIN messages /\ First(d.message) = At(b)
            /\ h.length = Length(d.message)
            /\ At(d.reader) = At(b) + 2 + (h.length - 2)
        BY <2>2, <2>5, <2>7, <3>3
      <4>2. /\ messages[d.message].last \in Nat /\ Length(d.message) \in Nat
            /\ messages[d.message].last + 1 = First(d.message) + Length(d.message)
        BY <4>1, MessageFacts
      <4>3. QED BY <3>2, <4>1, <4>2
    <3>4. At(d.reader) >= At(b)
      BY <2>2, <2>5, <2>7, <3>2
    <3>5. QED BY <2>5, <2>7, <3>1, <3>3, <3>4
  <2>8. QED BY <2>2, <2>5, <2>6, <2>7
<1>3. QED BY <1>1, <1>2

LEMMA SizeFacts ==
  ASSUME MessagesType
  PROVE  /\ Size \in Nat
         /\ \A m \in DOMAIN messages :
              messages[m].last <= Size /\ First(m + 1) = messages[m].last + 1
<1>1. DOMAIN messages = 1..Len(messages) /\ Len(messages) \in Nat /\ messages \in Seq(Message)
  BY DEF MessagesType
<1>2. \A m \in DOMAIN messages :
        m \in Nat \ {0} /\ messages[m].last \in Nat /\ First(m) + 1 <= messages[m].last /\ First(m) \in Nat
  BY MessageFacts
<1>3. ASSUME NEW m \in DOMAIN messages
      PROVE  messages[m].last <= Size /\ First(m + 1) = messages[m].last + 1
  <2>1. Len(messages) \in DOMAIN messages /\ m <= Len(messages) /\ messages # <<>>
    BY <1>1
  <2>2. Size = messages[Len(messages)].last
    BY <2>1 DEF Size
  <2>3. messages[m].last <= Size
    <3>1. CASE m = Len(messages)
      BY <1>2, <2>1, <2>2, <3>1
    <3>2. CASE m # Len(messages)
      <4>1. m < Len(messages)
        BY <1>1, <1>2, <2>1, <3>2
      <4>2. messages[m].last < First(Len(messages))
        BY <2>1, <4>1, MessageOrder
      <4>3. QED BY <1>2, <2>1, <2>2, <4>2
    <3>3. QED BY <3>1, <3>2
  <2>4. m + 1 # 1 /\ (m + 1) - 1 = m
    BY <1>2
  <2>5. First(m + 1) = messages[m].last + 1
    BY <2>4 DEF First
  <2>6. QED BY <2>3, <2>5
<1>4. Size \in Nat
  <2>1. CASE messages = <<>>
    BY <2>1 DEF Size
  <2>2. CASE messages # <<>>
    <3>1. Len(messages) \in DOMAIN messages
      BY <1>1, <2>2, EmptySeq
    <3>2. QED BY <1>2, <2>2, <3>1 DEF Size
  <2>3. QED BY <2>1, <2>2
<1>5. QED BY <1>3, <1>4

(* A reader that has just been set up. *)
LEMMA OpenFacts ==
  ASSUME NEW first \in Nat \ {0}, NEW last \in Nat, first <= last + 1
  PROVE  /\ ReaderOK(Open(first, last)) /\ At(Open(first, last)) = first
         /\ Open(first, last).end = last
         /\ Buffered(Open(first, last)) = 0 /\ Behind(Open(first, last)) = (last + 1) - first
<1> DEFINE b == Open(first, last)
<1>1. BufferSize \in Nat
  BY DispatchAssumption
<1>2. /\ b.buf \in [1..BufferSize -> Nat] /\ b.r = 0 /\ b.w = 0 /\ b.next = first /\ b.end = last
      /\ b = [buf |-> b.buf, r |-> b.r, w |-> b.w, next |-> b.next, end |-> b.end]
  BY DEF Open, ReaderOfSize, Empty
<1> HIDE DEF b
<1>3. Buffered(b) = 0 /\ Behind(b) = (last + 1) - first
  BY <1>2 DEF Buffered, Behind
<1>4. At(b) = first
  BY <1>2, <1>3 DEF At
<1>5. ReaderType(b)
  <2>1. b \in [buf : [1..BufferSize -> Nat], r : Nat, w : Nat, next : Nat, end : Nat]
    BY <1>2
  <2>2. b.r <= b.w /\ b.w <= BufferSize /\ b.next <= b.end + 1
    BY <1>1, <1>2
  <2>3. QED BY <2>1, <2>2 DEF ReaderType
<1>6. Reads(b, At(b))
  <2>1. b.next = At(b) + Buffered(b)
    BY <1>2, <1>3, <1>4
  <2>2. \A i \in 1..Buffered(b) : b.buf[b.r + i] = At(b) + i - 1
    BY <1>3
  <2>3. QED BY <2>1, <2>2 DEF Reads
<1>7. QED BY <1>2, <1>3, <1>4, <1>5, <1>6 DEF ReaderOK, b

(* What a client's handler leaves behind. *)
LEMMA ClientFacts ==
  ASSUME NEW b, ReaderOK(b), NEW h \in HeaderType, Holds(h, b),
         NEW n, n = Following(h.length), NEW p, p = Peek(b, n)
  PROVE  /\ n \in Nat /\ n = h.length - 2
         /\ ReaderOK(Discard(p, n)) /\ At(Discard(p, n)) = At(b) + n
         /\ Discard(p, n).end = b.end
         /\ Slice(p, 0, n) \in SliceType /\ Safe(Slice(p, 0, n), Discard(p, n))
         /\ Safely(b, Discard(p, n))
<1>1. n = h.length - 2 /\ h.length \in Nat /\ h.length >= 2 /\ CanPeek(b, n)
  BY DEF Holds, Following, HeaderLength, HeaderType
<1>2. n \in Nat
  BY <1>1
<1>3. ReaderOK(p) /\ At(p) = At(b) /\ p.end = b.end /\ n <= Buffered(p)
  <2>1. n \in Int
    BY <1>2
  <2>2. QED BY <1>1, <2>1, PeekKeeps
<1>4. /\ ReaderOK(Discard(p, n)) /\ At(Discard(p, n)) = At(p) + n
      /\ Discard(p, n).end = p.end /\ Behind(Discard(p, n)) = Behind(p)
  BY <1>2, <1>3, DiscardKeeps
<1>5. Slice(p, 0, n) \in SliceType /\ Safe(Slice(p, 0, n), Discard(p, n))
  <2>1. 0 \in Nat /\ 0 <= n
    BY <1>2
  <2>2. QED BY <1>2, <1>3, <2>1, SliceFacts
<1>6. Safely(b, p)
  <2>1. n \in Int
    BY <1>2
  <2>2. QED BY <1>1, <2>1, PeekSafely
<1>7. Safely(p, Discard(p, n))
  BY <1>2, <1>3, DiscardSafely
<1>8. Safely(b, Discard(p, n))
  BY <1>6, <1>7, SafelyTwice
<1>9. QED BY <1>1, <1>2, <1>3, <1>4, <1>5, <1>8

-----------------------------------------------------------------------------
(* The reader stays in order, and reaches the end of the messages. *)

ReaderInv ==
  /\ MessagesType
  /\ ReaderOK(reader)
  /\ header \in HeaderType
  /\ step \in {"loop", "handler"} => reader.end >= Size

LEMMA InitReader == Init => ReaderInv
<1>1. SUFFICES ASSUME Init PROVE ReaderInv
  OBVIOUS
<1>2. messages \in Seq(Message)
  <2>1. PICK n \in 0..MaxMessages : messages \in [1..n -> Message]
    BY <1>1 DEF Init
  <2>2. n \in Nat
    BY DispatchAssumption
  <2>3. QED BY <2>1, <2>2
<1>3. MessagesType
  BY <1>1, <1>2 DEF Init, MessagesType
<1>4. ReaderOK(reader)
  <2>1. reader = Open(1, 0)
    BY <1>1 DEF Init
  <2>2. 1 \in Nat \ {0} /\ 0 \in Nat /\ 1 <= 0 + 1
    OBVIOUS
  <2>3. QED BY <2>1, <2>2, OpenFacts
<1>5. header \in HeaderType
  BY <1>1 DEF Init, HeaderType, Segments
<1>6. step = "frame"
  BY <1>1 DEF Init
<1>7. QED BY <1>3, <1>4, <1>5, <1>6 DEF ReaderInv

LEMMA StepReader == ReaderInv /\ [Next]_vars => ReaderInv'
<1>1. SUFFICES ASSUME ReaderInv, [Next]_vars PROVE ReaderInv'
  OBVIOUS
<1>2. /\ MessagesType /\ ReaderOK(reader) /\ header \in HeaderType
      /\ step \in {"loop", "handler"} => reader.end >= Size
  BY <1>1 DEF ReaderInv
<1>3. messages' = messages
  BY <1>1 DEF Next, vars, SetUp, NextMessage, EndFrame, ClientHandler, SkipMessage, DecodeOwn
<1>4. MessagesType' /\ Size' = Size
  BY <1>2, <1>3 DEF MessagesType, Size, Length, First
<1>5. SUFFICES /\ ReaderOK(reader') /\ header' \in HeaderType
               /\ step' \in {"loop", "handler"} => reader'.end >= Size
  BY <1>4 DEF ReaderInv
<1>6. Size \in Nat /\ reader.end \in Nat
  BY <1>2, SizeFacts, ReaderFacts DEF ReaderOK
<1>7. CASE SetUp
  <2>1. header' = header
    BY <1>7 DEF SetUp
  <2>2. CASE step' = "panic" /\ reader' = reader
    BY <1>2, <2>1, <2>2
  <2>3. CASE reader' = Open(1, Size)
    <3>1. 1 \in Nat \ {0} /\ 1 <= Size + 1
      BY <1>6
    <3>2. ReaderOK(reader') /\ reader'.end = Size
      BY <1>6, <2>3, <3>1, OpenFacts
    <3>3. QED BY <1>2, <1>6, <2>1, <3>2
  <2>4. CASE \E n \in 0..Size : reader' = Open(Size + 1, Size + n)
    <3>1. PICK n \in 0..Size : reader' = Open(Size + 1, Size + n)
      BY <2>4
    <3>2. Size + 1 \in Nat \ {0} /\ Size + n \in Nat /\ Size + 1 <= Size + n + 1 /\ Size + n >= Size
      BY <1>6
    <3>3. ReaderOK(reader') /\ reader'.end = Size + n
      BY <3>1, <3>2, OpenFacts
    <3>4. QED BY <1>2, <2>1, <3>2, <3>3
  <2>5. QED BY <1>7, <2>2, <2>3, <2>4 DEF SetUp
<1>8. CASE NextMessage
  <2>1. step = "loop"
    BY <1>8 DEF NextMessage
  <2>2. CASE Fail(reader, 2) /\ header' = header
    <3>1. reader' = Peek(reader, 2) /\ step' = "error"
      BY <2>2 DEF Fail
    <3>2. QED BY <1>2, <2>2, <3>1, PeekKeeps
  <2>3. CASE \E h \in DecodeHeader(reader) : header' = h /\ reader' = AfterHeader(reader)
    <3>1. PICK h \in DecodeHeader(reader) : header' = h /\ reader' = AfterHeader(reader)
      BY <2>3
    <3>2. ReaderOK(reader') /\ reader'.end = reader.end /\ header' \in HeaderType
      BY <1>2, <3>1, HeaderFacts
    <3>3. QED BY <1>2, <2>1, <3>2
  <2>4. QED BY <1>8, <2>2, <2>3 DEF NextMessage, HeaderLength
<1>9. CASE ClientHandler
  <2> DEFINE n == Following(header.length)
             p == Peek(reader, n)
  <2>1. header' = header /\ step = "handler" /\ n \in Int
    BY <1>2, <1>9 DEF ClientHandler, Following, HeaderLength, HeaderType
  <2>2. CASE Holds(header, reader) /\ reader' = Discard(p, n)
    BY <1>2, <2>1, <2>2, ClientFacts
  <2>3. CASE Fail(reader, n)
    <3>1. reader' = Peek(reader, n) /\ step' = "error"
      BY <2>3 DEF Fail
    <3>2. QED BY <1>2, <2>1, <3>1, PeekKeeps
  <2>4. QED BY <1>9, <2>2, <2>3 DEF ClientHandler
<1>10. CASE DecodeOwn
  <2>1. PICK d \in DecodeAs(handler, reader) : reader' = d.reader
    BY <1>10 DEF DecodeOwn
  <2>2. header' = header /\ step = "handler"
    BY <1>10 DEF DecodeOwn
  <2>3. QED BY <1>2, <2>1, <2>2, DecodeFacts
<1>11. CASE reader' = reader /\ header' = header /\ (step' = step \/ step' = "done" \/ step = "handler")
  BY <1>2, <1>11
<1>12. QED BY <1>1, <1>7, <1>8, <1>9, <1>10, <1>11 DEF Next, EndFrame, SkipMessage, vars

LEMMA AlwaysReader == Spec => []ReaderInv
BY InitReader, StepReader, PTL DEF Spec

(* The decoders of subscriber_gameevent.go and subscriber_keepalive.go     *)
(* find, wherever the loop of ProcessFrames has left the reader at the     *)
(* beginning of a message that fits the buffer, that message and nothing   *)
(* but that message, and leave the reader at the next one.                 *)
THEOREM DecodingFindsMessages == Spec => []DecodeFindsMessage
<1>1. ReaderInv => DecodeFindsMessage
  <2>1. SUFFICES ASSUME ReaderInv, NEW m \in DOMAIN messages, step = "loop", Reads(reader, First(m)),
                        messages[m].segment # "session", Fits(m),
                        NEW d \in DecodeAs(messages[m].segment, reader)
                 PROVE  /\ d.result = "message" /\ d.message = m /\ d.opcode = messages[m].opcode
                        /\ Reads(d.reader, messages[m].last + 1)
    BY DEF DecodeFindsMessage
  <2>2. MessagesType /\ ReaderOK(reader) /\ reader.end >= Size
    BY <2>1 DEF ReaderInv
  <2>3. /\ First(m) \in Nat /\ First(m) + 1 <= messages[m].last /\ messages[m].last \in Nat
        /\ messages[m].last <= Size /\ Size \in Nat /\ reader.end \in Nat
    BY <2>2, MessageFacts, SizeFacts, ReaderFacts DEF ReaderOK
  <2>4. At(reader) = First(m)
    <3>1. reader.next \in Nat /\ Buffered(reader) \in Nat /\ reader.next = First(m) + Buffered(reader)
      BY <2>1, <2>2, ReaderFacts DEF ReaderOK, Reads
    <3>2. QED BY <2>3, <3>1 DEF At
  <2>5. messages[m].last <= reader.end /\ reader.end >= At(reader) + 1
    BY <2>2, <2>3, <2>4
  <2>6. DecodeHeader(reader) # {}
    BY <2>2, <2>5, HeaderThere
  <2>7. PICK h \in DecodeHeader(reader) : d \in DecodeRest(messages[m].segment, h, AfterHeader(reader))
    BY <2>6 DEF DecodeAs
  <2>8. /\ ReaderOK(AfterHeader(reader)) /\ At(AfterHeader(reader)) = First(m) + 2
        /\ AfterHeader(reader).end = reader.end
        /\ h \in HeaderType /\ h.message = m /\ h.length = Length(m)
    BY <2>2, <2>4, HeaderFacts
  <2>9. /\ d.result = "message" /\ d.message = m /\ d.opcode = messages[m].opcode
        /\ ReaderOK(d.reader) /\ At(d.reader) = messages[m].last + 1
    BY <2>1, <2>2, <2>5, <2>7, <2>8, RestFinds
  <2>10. Reads(d.reader, messages[m].last + 1)
    BY <2>9 DEF ReaderOK
  <2>11. QED BY <2>9, <2>10
<1>2. QED BY <1>1, AlwaysReader, PTL

-----------------------------------------------------------------------------
(* The handler is called for each message. *)

Plain == handler = "client" /\ compression = "none" /\ \A m \in DOMAIN messages : Fits(m)

CalledInv ==
  /\ step = "frame" => count = 0 /\ called = <<>>
  /\ Plain =>
       /\ count \in Nat /\ count <= Len(messages)
       /\ called \in Seq(Nat) /\ Len(called) = count
       /\ \A i \in 1..count : called[i] = i
       /\ step \in {"frame", "loop", "handler", "done"}
       /\ step = "loop" => reader.end = Size /\ At(reader) = First(count + 1)
       /\ step = "handler" =>
            /\ count \in DOMAIN messages /\ header.length = Length(count)
            /\ reader.end = Size /\ At(reader) = First(count) + 2
       /\ step = "done" => count = Len(messages)

LEMMA StepCalled == ReaderInv /\ CalledInv /\ [Next]_vars => CalledInv'
<1>1. SUFFICES ASSUME ReaderInv, CalledInv, [Next]_vars PROVE CalledInv'
  OBVIOUS
<1>2. /\ MessagesType /\ ReaderOK(reader) /\ header \in HeaderType
      /\ DOMAIN messages = 1..Len(messages) /\ Len(messages) \in Nat
  BY <1>1 DEF ReaderInv, MessagesType
<1>3. messages' = messages /\ handler' = handler /\ compression' = compression
  BY <1>1 DEF Next, vars, SetUp, NextMessage, EndFrame, ClientHandler, SkipMessage, DecodeOwn
<1>4. Plain' = Plain /\ Size' = Size /\ \A m : First(m)' = First(m) /\ Length(m)' = Length(m)
  BY <1>3 DEF Plain, Fits, Size, Length, First
<1>5. step' = "frame" => UNCHANGED <<step, count, called>>
  BY <1>1, DecodeFacts, <1>2
     DEF Next, vars, SetUp, NextMessage, EndFrame, ClientHandler, SkipMessage, DecodeOwn, Fail
<1>6. SUFFICES ASSUME Plain
               PROVE  /\ count' \in Nat /\ count' <= Len(messages)
                      /\ called' \in Seq(Nat) /\ Len(called') = count'
                      /\ \A i \in 1..count' : called'[i] = i
                      /\ step' \in {"frame", "loop", "handler", "done"}
                      /\ step' = "loop" => reader'.end = Size /\ At(reader') = First(count' + 1)
                      /\ step' = "handler" =>
                           /\ count' \in DOMAIN messages /\ header'.length = Length(count')
                           /\ reader'.end = Size /\ At(reader') = First(count') + 2
                      /\ step' = "done" => count' = Len(messages)
  BY <1>1, <1>3, <1>4, <1>5 DEF CalledInv
<1>7. /\ handler = "client" /\ compression = "none" /\ \A m \in DOMAIN messages : Fits(m)
      /\ count \in Nat /\ count <= Len(messages)
      /\ called \in Seq(Nat) /\ Len(called) = count
      /\ \A i \in 1..count : called[i] = i
      /\ step \in {"frame", "loop", "handler", "done"}
      /\ step = "loop" => reader.end = Size /\ At(reader) = First(count + 1)
      /\ step = "handler" =>
           /\ count \in DOMAIN messages /\ header.length = Length(count)
           /\ reader.end = Size /\ At(reader) = First(count) + 2
      /\ step = "done" => count = Len(messages)
      /\ step = "frame" => count = 0
  BY <1>1, <1>6 DEF CalledInv, Plain
<1>8. Size \in Nat
  BY <1>2, SizeFacts
<1>9. CASE SetUp
  <2>1. count' = 0 /\ count = 0 /\ called' = called
    BY <1>7, <1>9 DEF SetUp
  <2>2. step' = "loop" /\ reader' = Open(1, Size)
    BY <1>7, <1>9 DEF SetUp
  <2>3. At(reader') = 1 /\ reader'.end = Size
    <3>1. 1 \in Nat \ {0} /\ 1 <= Size + 1
      BY <1>8
    <3>2. QED BY <1>8, <2>2, <3>1, OpenFacts
  <2>4. First(0 + 1) = 1
    BY DEF First
  <2>5. QED BY <1>7, <2>1, <2>2, <2>3, <2>4
<1>10. CASE NextMessage
  <2>1. /\ step = "loop" /\ count # Len(messages)
        /\ reader.end = Size /\ At(reader) = First(count + 1)
    BY <1>7, <1>10 DEF NextMessage, AllHandled
  <2> DEFINE m == count + 1
  <2>2. m \in DOMAIN messages /\ m \in Nat
    <3>1. count \in Nat /\ Len(messages) \in Nat /\ count < Len(messages)
      <4>1. Len(messages) \in Nat /\ count # Len(messages)
        BY <1>2, <2>1
      <4>2. count \in Nat /\ count <= Len(messages)
        BY <1>7
      <4>3. QED BY <4>1, <4>2
    <3>2. count + 1 \in Nat /\ 1 <= count + 1 /\ count + 1 <= Len(messages)
      BY <3>1
    <3>3. m \in 1..Len(messages)
      BY <3>1, <3>2
    <3>4. DOMAIN messages = 1..Len(messages)
      BY <1>2
    <3>5. QED BY <3>2, <3>3, <3>4
  <2>3. /\ First(m) + 1 <= messages[m].last /\ First(m) \in Nat /\ messages[m].last \in Nat
        /\ messages[m].last <= Size
    BY <1>2, <2>2, MessageFacts, SizeFacts
  <2>4. At(reader) = First(m) /\ reader.end >= At(reader) + 1
    BY <1>8, <2>1, <2>3
  <2> HIDE DEF m
  <2>5. DecodeHeader(reader) # {}
    BY <1>2, <2>4, HeaderThere
  <2>6. PICK h \in DecodeHeader(reader) :
          /\ header' = h /\ reader' = AfterHeader(reader)
          /\ count' = count + 1 /\ called' = Append(called, h.message) /\ step' = "handler"
    BY <1>10, <2>5 DEF NextMessage
  <2>7. /\ At(reader') = First(m) + 2 /\ reader'.end = Size
        /\ h.message = m /\ header'.length = Length(m)
    BY <1>2, <2>1, <2>2, <2>4, <2>6, HeaderFacts
  <2>8. count' = m
    BY <2>6 DEF m
  <2>9. /\ called' \in Seq(Nat) /\ Len(called') = m
        /\ \A i \in 1..m : called'[i] = i
    <3>1. called' = Append(called, m)
      BY <2>6, <2>7
    <3>2. called' \in Seq(Nat) /\ Len(called') = Len(called) + 1
      BY <1>7, <2>2, <3>1, AppendProperties
    <3>3. /\ \A i \in 1..Len(called) : called'[i] = called[i]
          /\ called'[Len(called) + 1] = m
      BY <1>7, <2>2, <3>1, AppendProperties
    <3>4. Len(called) + 1 = m
      BY <1>7 DEF m
    <3>5. \A i \in 1..m : i \in 1..count \/ i = m
      BY <1>7 DEF m
    <3>6. QED BY <1>7, <3>2, <3>3, <3>4, <3>5
  <2>10. m <= Len(messages)
    BY <1>2, <2>2
  <2>11. QED BY <2>2, <2>6, <2>7, <2>8, <2>9, <2>10
<1>11. CASE EndFrame
  <2>1. count = Len(messages) /\ step' = "done" /\ UNCHANGED <<count, called>>
    BY <1>11 DEF EndFrame, AllHandled
  <2>2. QED BY <1>7, <2>1
<1>12. CASE ClientHandler
  <2> DEFINE n == Following(header.length)
             p == Peek(reader, n)
  <2>1. /\ step = "handler" /\ UNCHANGED <<count, called>>
        /\ \/ Holds(header, reader) /\ reader' = Discard(p, n) /\ step' = "loop"
           \/ ~Holds(header, reader)
    BY <1>12 DEF ClientHandler
  <2>2. /\ count \in DOMAIN messages /\ header.length = Length(count)
        /\ reader.end = Size /\ At(reader) = First(count) + 2 /\ Fits(count)
    BY <1>7, <2>1
  <2>3. /\ First(count) \in Nat /\ Length(count) \in Nat /\ Length(count) >= 2
        /\ messages[count].last \in Nat
        /\ messages[count].last + 1 = First(count) + Length(count)
        /\ messages[count].last <= Size /\ First(count + 1) = messages[count].last + 1
    BY <1>2, <2>2, MessageFacts, SizeFacts
  <2>4. n = Length(count) - 2 /\ n \in Int
    BY <2>2, <2>3 DEF Following, HeaderLength
  <2>5. Holds(header, reader)
    <3>1. BufferSize \in Nat /\ Length(count) <= 2 + BufferSize
      BY <2>2, DispatchAssumption DEF Fits, HeaderLength
    <3>2. n <= (reader.end + 1) - At(reader) /\ n <= BufferSize
      BY <1>8, <2>2, <2>3, <2>4, <3>1
    <3>3. CanPeek(reader, n)
      BY <1>2, <2>4, <3>2, CanPeekIs
    <3>4. QED BY <2>2, <2>3, <3>3 DEF Holds, HeaderLength
  <2>6. At(reader') = At(reader) + n /\ reader'.end = Size /\ step' = "loop"
    BY <1>2, <2>1, <2>2, <2>5, ClientFacts
  <2> HIDE DEF n, p
  <2>7. At(reader') = First(count + 1)
    BY <2>2, <2>3, <2>4, <2>6
  <2>8. QED BY <1>7, <2>1, <2>6, <2>7
<1>13. CASE UNCHANGED vars
  BY <1>7, <1>13 DEF vars
<1>14. QED BY <1>1, <1>7, <1>9, <1>10, <1>11, <1>12, <1>13 DEF Next, SkipMessage, DecodeOwn

LEMMA InitCalled == Init => CalledInv
<1>1. SUFFICES ASSUME Init PROVE CalledInv
  OBVIOUS
<1>2. step = "frame" /\ count = 0 /\ called = <<>>
  BY <1>1 DEF Init
<1>3. messages \in Seq(Message)
  BY <1>1, InitReader DEF ReaderInv, MessagesType
<1>4. Len(messages) \in Nat /\ 0 <= Len(messages)
  BY <1>3
<1>5. QED BY <1>2, <1>4 DEF CalledInv

(* ProcessFrames calls a client's handler, that reads its messages to the  *)
(* end, once for each message of a frame, in order, and ends without an    *)
(* error, whatever the number and lengths of the messages that fit.        *)
THEOREM CallsForEachMessage == Spec => []CalledForEachMessage
<1>1. ReaderInv /\ CalledInv => CalledForEachMessage
  <2>1. SUFFICES ASSUME ReaderInv, CalledInv, Plain
                 PROVE  /\ \A i \in DOMAIN called : called[i] = i
                        /\ Finished => step = "done" /\ Len(called) = Len(messages)
    BY DEF CalledForEachMessage, Plain
  <2>2. DOMAIN called = 1..count
    BY <2>1 DEF CalledInv
  <2>3. QED BY <2>1, <2>2 DEF CalledInv, Finished
<1>2. QED BY <1>1, InitReader, StepReader, InitCalled, StepCalled, PTL DEF Spec

-----------------------------------------------------------------------------
(* What has been handed out stays as it is. *)

KeptInv ==
  /\ kept \in Seq(SliceType)
  /\ step = "frame" => kept = <<>>
  /\ step # "error" => Full(reader) /\ \A i \in DOMAIN kept : Safe(kept[i], reader)

LEMMA SafeAll ==
  ASSUME NEW s \in Seq(SliceType), NEW t \in Seq(SliceType), NEW b,
         \A i \in DOMAIN s : Safe(s[i], b), \A i \in DOMAIN t : Safe(t[i], b)
  PROVE  s \o t \in Seq(SliceType) /\ \A i \in DOMAIN (s \o t) : Safe((s \o t)[i], b)
<1>1. /\ s \o t \in Seq(SliceType) /\ Len(s \o t) = Len(s) + Len(t)
      /\ \A i \in 1..Len(s) + Len(t) : (s \o t)[i] = IF i <= Len(s) THEN s[i] ELSE t[i - Len(s)]
  BY ConcatProperties
<1>2. /\ Len(s) \in Nat /\ Len(t) \in Nat /\ DOMAIN s = 1..Len(s) /\ DOMAIN t = 1..Len(t)
      /\ DOMAIN (s \o t) = 1..Len(s) + Len(t)
  BY <1>1, LenProperties
<1>3. ASSUME NEW i \in 1..Len(s) + Len(t) PROVE Safe((s \o t)[i], b)
  <2>1. CASE i <= Len(s)
    <3>1. i \in DOMAIN s
      BY <1>2, <2>1
    <3>2. QED BY <1>1, <2>1, <3>1
  <2>2. CASE ~(i <= Len(s))
    <3>1. i - Len(s) \in DOMAIN t
      BY <1>2, <2>2
    <3>2. QED BY <1>1, <2>2, <3>1
  <2>3. QED BY <2>1, <2>2
<1>4. QED BY <1>1, <1>2, <1>3

(* A buffer in which nothing has been read is as full as it need be. *)
LEMMA OpenFull == \A first, last : Full(Open(first, last))
BY DEF Full, Open, ReaderOfSize

LEMMA InitKept == Init => KeptInv
BY OpenFull DEF Init, KeptInv

LEMMA StepKept == ReaderInv /\ KeptInv /\ [Next]_vars => KeptInv'
<1>1. SUFFICES ASSUME ReaderInv, KeptInv, [Next]_vars PROVE KeptInv'
  OBVIOUS
<1>2. MessagesType /\ ReaderOK(reader) /\ header \in HeaderType
  BY <1>1 DEF ReaderInv
<1>3. kept \in Seq(SliceType) /\ (step = "frame" => kept = <<>>)
  BY <1>1 DEF KeptInv
<1>4. step # "error" => Full(reader) /\ \A i \in DOMAIN kept : Safe(kept[i], reader)
  BY <1>1 DEF KeptInv
<1>5. step' = "frame" => kept' = <<>>
  <2>1. ~(step' = "frame" /\ DecodeOwn)
    BY <1>2, DecodeFacts DEF DecodeOwn
  <2>2. QED BY <1>1, <1>3, <2>1
        DEF Next, vars, SetUp, NextMessage, EndFrame, ClientHandler, SkipMessage, Fail
<1>6. SUFFICES /\ kept' \in Seq(SliceType)
               /\ step' # "error" => Full(reader') /\ \A i \in DOMAIN kept' : Safe(kept'[i], reader')
  BY <1>5 DEF KeptInv, Safe, Full, Holding, Front, Behind
(* What was safe is safe where the reader has come to. *)
<1>7. ASSUME step # "error", Safely(reader, reader')
      PROVE  Full(reader') /\ \A i \in DOMAIN kept : Safe(kept[i], reader')
  <2>1. \A i \in DOMAIN kept : kept[i] \in SliceType
    BY <1>3
  <2>2. QED BY <1>4, <1>7, <2>1 DEF Safely
<1>8. CASE SetUp
  <2>1. kept' = <<>> /\ step = "frame"
    BY <1>3, <1>8 DEF SetUp
  <2>2. Full(reader')
    BY <1>4, <1>8, <2>1, OpenFull DEF SetUp, Full, Behind
  <2>3. QED BY <2>1, <2>2
<1>9. CASE NextMessage
  <2>1. kept' = kept /\ step = "loop"
    BY <1>9 DEF NextMessage
  <2>2. CASE step' = "error"
    BY <1>3, <2>1, <2>2
  <2>3. CASE step' # "error"
    <3>1. PICK h \in DecodeHeader(reader) : reader' = AfterHeader(reader)
      BY <1>9, <2>3 DEF NextMessage, Fail
    <3>2. CanPeek(reader, 2)
      BY <3>1 DEF DecodeHeader, HeaderLength
    <3>3. Safely(reader, Peek(reader, 2)) /\ ReaderOK(Peek(reader, 2))
      BY <1>2, <3>2, PeekSafely, PeekKeeps
    <3>4. Safely(Peek(reader, 2), Discard(Peek(reader, 2), 2))
      BY <3>3, DiscardSafely
    <3>5. reader' = Discard(Peek(reader, 2), 2)
      BY <3>1 DEF AfterHeader, HeaderLength
    <3>6. Safely(reader, reader')
      BY <3>3, <3>4, <3>5, SafelyTwice
    <3>7. QED BY <1>3, <1>7, <2>1, <3>6
  <2>4. QED BY <2>2, <2>3
<1>10. CASE ClientHandler
  <2> DEFINE n == Following(header.length)
             p == Peek(reader, n)
  <2>1. CASE ~Holds(header, reader)
    BY <1>3, <1>10, <2>1 DEF ClientHandler, Fail
  <2>2. CASE Holds(header, reader)
    <3> DEFINE s == Slice(p, 0, n)
    <3>1. /\ kept' = Append(kept, s) /\ reader' = Discard(p, n)
          /\ step = "handler" /\ step' = "loop"
      BY <1>10, <2>2 DEF ClientHandler
    <3>2. s \in SliceType /\ Safe(s, reader') /\ Safely(reader, reader')
      BY <1>2, <2>2, <3>1, ClientFacts
    <3> HIDE DEF n, p, s
    <3>3. kept' = kept \o <<s>>
      BY <1>3, <3>1, <3>2, AppendIsConcat
    <3>4. <<s>> \in Seq(SliceType) /\ \A i \in DOMAIN <<s>> : Safe(<<s>>[i], reader')
      <4>1. <<s>> \in Seq(SliceType) /\ \A i \in DOMAIN <<s>> : <<s>>[i] = s
        BY <3>2
      <4>2. QED BY <3>2, <4>1
    <3>5. Full(reader') /\ \A i \in DOMAIN kept : Safe(kept[i], reader')
      BY <1>7, <3>1, <3>2
    <3>6. QED BY <1>3, <3>3, <3>4, <3>5, SafeAll
  <2>3. QED BY <2>1, <2>2
<1>11. CASE DecodeOwn
  <2>1. PICK d \in DecodeAs(handler, reader) :
          /\ step = "handler" /\ reader' = d.reader
          /\ \/ /\ d.result = "message" /\ step' = "loop"
                /\ kept' = kept \o d.slices \/ kept' = kept
             \/ d.result # "message" /\ step' = d.result /\ kept' = kept
    BY <1>11 DEF DecodeOwn
  <2>2. /\ d.result # "error" => Safely(reader, reader')
        /\ d.result = "message" =>
             /\ d.slices \in Seq(SliceType)
             /\ \A i \in DOMAIN d.slices : Safe(d.slices[i], reader')
    BY <1>2, <2>1, DecodeFacts
  <2>3. kept' \in Seq(SliceType)
    BY <1>3, <2>1, <2>2, ConcatProperties
  <2>4. ASSUME step' # "error"
        PROVE  Full(reader') /\ \A i \in DOMAIN kept' : Safe(kept'[i], reader')
    <3>1. Full(reader') /\ \A i \in DOMAIN kept : Safe(kept[i], reader')
      BY <1>7, <2>1, <2>2, <2>4
    <3>2. CASE kept' = kept
      BY <3>1, <3>2
    <3>3. CASE d.result = "message" /\ kept' = kept \o d.slices
      BY <1>3, <2>2, <3>1, <3>3, SafeAll
    <3>4. QED BY <2>1, <3>2, <3>3
  <2>5. QED BY <2>3, <2>4
<1>12. CASE reader' = reader /\ kept' = kept /\ (step' = step \/ step # "error")
  BY <1>3, <1>4, <1>12
<1>13. QED BY <1>1, <1>8, <1>9, <1>10, <1>11, <1>12 DEF Next, EndFrame, SkipMessage, vars

(* A slice of the buffer that Peek has returned, as the Body that the      *)
(* decoder of message.go hands out is, holds what it held until more has   *)
(* been read since the front of its buffer than the buffer has room for,   *)
(* whatever the size of the frame and however often the buffer is filled.  *)
THEOREM BodiesStayIntact == Spec => []BodiesIntact
<1>1. ReaderInv /\ KeptInv => BodiesIntact
  <2>1. SUFFICES ASSUME ReaderInv, KeptInv, step # "error", NEW i \in DOMAIN kept,
                        reader.next <= kept[i].front + BufferSize
                 PROVE  Intact(kept[i])
    BY DEF BodiesIntact
  <2>2. kept[i] \in SliceType /\ Safe(kept[i], reader)
    BY <2>1 DEF KeptInv
  <2>3. kept[i].front \in Int /\ reader.next \in Nat /\ reader.w \in Nat /\ BufferSize \in Nat
    BY <2>1, <2>2, ReaderFacts DEF SliceType, ReaderInv, ReaderOK
  <2>4. kept[i].front = Front(reader)
    BY <2>1, <2>2, <2>3 DEF Safe, Front
  <2>5. QED BY <2>2, <2>4 DEF Safe, Intact, Holding
<1>2. QED BY <1>1, InitReader, StepReader, InitKept, StepKept, PTL DEF Spec
=============================================================================
