-------------------------- MODULE DeviceOpenProofs --------------------------
(***************************************************************************)
(* Proofs about DeviceOpen, for every platform and any number of calls.     *)
(* FailureReleases speaks of the time between calls; what makes it          *)
(* inductive is what holds of the handle in progress at each step.          *)
(***************************************************************************)
EXTENDS DeviceOpen, TLAPS

-----------------------------------------------------------------------------
(* The arithmetic of AFPacketBuffers, for every target size, snaplen and page size. *)

(* If n parts of a fit into p, each of n equal parts of p has room for a. *)
LEMMA EqualParts ==
  ASSUME NEW p \in Nat \ {0}, NEW a \in Nat \ {0}, a <= p
  PROVE  /\ p \div a \in Nat \ {0}
         /\ p \div (p \div a) \in Nat /\ p \div (p \div a) >= a
<1> DEFINE n == p \div a
           q == p \div n
<1>1. n \in Nat \ {0} /\ n * a <= p
  <2>1. n \in Nat /\ n * a <= p /\ p < (n + 1) * a
    BY SMTT(30)
  <2>2. n # 0
    BY <2>1, SMT
  <2>3. QED BY <2>1, <2>2
<1>2. q \in Nat /\ p < (q + 1) * n
  <2> HIDE DEF n
  <2>1. QED BY <1>1, SMTT(30)
<1>3. q >= a
  <2> HIDE DEF n, q
  <2>1. SUFFICES ASSUME q < a PROVE FALSE
    BY <1>2
  <2>2. (q + 1) * n <= a * n
    BY <1>1, <1>2, <2>1, SMTT(30)
  <2>3. QED BY <1>1, <1>2, <2>2, SMTT(30)
<1>4. QED BY <1>1, <1>2, <1>3

(* FrameSize (afpacket.go:10) always has room for a packet. *)
LEMMA FrameFits ==
  ASSUME NEW s \in Nat \ {0}, NEW p \in Nat \ {0}
  PROVE  FrameSize(s, p) \in Nat /\ FrameSize(s, p) >= s
<1>1. CASE s < p
  BY <1>1, EqualParts DEF FrameSize
<1>2. CASE ~(s < p)
  <2>1. s \div p \in Nat /\ s < ((s \div p) + 1) * p
    BY SMTT(30)
  <2>2. QED BY <1>2, <2>1 DEF FrameSize
<1>3. QED BY <1>1, <1>2

-----------------------------------------------------------------------------

(* The handle of the call in progress: not yet opened at first, open and   *)
(* no Sniffer's afterwards, promiscuous as far as its opening has got.     *)
InProgress ==
  at # "idle" =>
    /\ mode # <<>>
    /\ Current \notin sniffers
    /\ at \in {"sizes", "open"} => Current \notin open /\ Current \notin promiscuous
    /\ at \notin {"sizes", "open"} => Current \in open
    /\ at = "sizes" => mode[Current] = "afpacket"
    /\ at = "promiscuous" => mode[Current] = "afpacket" /\ Current \notin promiscuous
    /\ at \in {"pollDuration", "socketMode", "enable"} => Current \in promiscuous
    /\ at = "filter" => mode[Current] = "file" \/ Current \in promiscuous

(* Every other open handle is a Sniffer's, or an AF_PACKET handle whose    *)
(* promiscuous mode was refused.                                           *)
Accounted ==
  \A h \in open :
    \/ at # "idle" /\ h = Current
    \/ h \in sniffers
    \/ mode[h] = "afpacket" /\ h \notin promiscuous

IInv == TypeOK /\ InProgress /\ Accounted /\ SniffersCapture /\ PacketFits

LEMMA InitInv == Init => IInv
BY DeviceOpenAssumption
   DEF Init, IInv, TypeOK, InProgress, Accounted, SniffersCapture, PacketFits, Handles, Modes, Steps

(* Appending a mode leaves those of the earlier handles alone. *)
LEMMA Appended ==
  ASSUME mode \in Seq(Modes), NEW m \in Modes, mode' = Append(mode, m)
  PROVE  /\ mode' \in Seq(Modes) /\ Len(mode') = Len(mode) + 1 /\ mode' # <<>>
         /\ \A h \in 1..Len(mode) : mode'[h] = mode[h]
         /\ mode'[Len(mode')] = m
OBVIOUS

(* What afpacketCalculateBuffers returns without an error. *)
LEMMA Calculated ==
  ASSUME TypeOK, CalculateBuffers, ~Fail
  PROVE  /\ ring' \in Sizes /\ PacketFits'
         /\ at = "sizes" /\ at' = "open"
         /\ UNCHANGED <<page, mode, open, promiscuous, filtered, sniffers>>
<1>1. PICK target \in TargetSizes, snap \in Snaplens :
        /\ BlockCount(target, BlockSize(snap, page)) # 0
        /\ ring' = [target |-> target, snaplen |-> snap, frame |-> FrameSize(snap, page),
                    block |-> BlockSize(snap, page),
                    count |-> BlockCount(target, BlockSize(snap, page))]
  BY DEF CalculateBuffers
<1>2. /\ target \in Nat /\ snap \in Nat \ {0} /\ page \in Nat \ {0}
  BY DeviceOpenAssumption DEF TypeOK
<1>3. FrameSize(snap, page) \in Nat /\ FrameSize(snap, page) >= snap
  BY <1>2, FrameFits
<1>4. BlockSize(snap, page) \in Nat \ {0}
  BY <1>2, <1>3 DEF BlockSize, FramesPerBlock
<1>5. BlockCount(target, BlockSize(snap, page)) \in Nat
  BY <1>2, <1>4 DEF BlockCount, MB
<1>6. ring' \in Sizes
  BY <1>1, <1>3, <1>4, <1>5 DEF Sizes
<1>7. PacketFits'
  BY <1>1, <1>3, <1>5 DEF PacketFits
<1>8. QED BY <1>6, <1>7 DEF CalculateBuffers

LEMMA NextInv == IInv /\ [Next]_vars => IInv'
<1> SUFFICES ASSUME IInv, [Next]_vars PROVE IInv'
  OBVIOUS
<1> USE DEF IInv
<1>0. Len(mode) \in Nat /\ (mode # <<>> => Len(mode) \in Handles)
  BY DEF TypeOK, Handles
<1>1. ASSUME UNCHANGED ring PROVE PacketFits'
  BY <1>1 DEF PacketFits
<1>2. CASE NewSniffer
  <2>1. PICK m \in Modes : mode' = Append(mode, m) /\ (at' = IF m = "afpacket" THEN "sizes" ELSE "open")
    BY <1>2 DEF NewSniffer
  <2>2. /\ mode' \in Seq(Modes) /\ Len(mode') = Len(mode) + 1 /\ mode' # <<>>
        /\ \A h \in Handles : mode'[h] = mode[h]
        /\ mode'[Current'] = m
    BY <2>1, Appended DEF TypeOK, Handles, Current
  <2>3. Handles \subseteq Handles' /\ Current' \notin Handles
    BY <2>2, <1>0 DEF Handles, Current
  <2>4. TypeOK'
    BY <1>0, <1>2, <2>1, <2>2, <2>3, DeviceOpenAssumption DEF NewSniffer, TypeOK, Steps
  <2>5. InProgress'
    BY <1>2, <2>1, <2>2, <2>3 DEF NewSniffer, TypeOK, InProgress
  <2>6. Accounted'
    BY <1>2, <2>2, <2>3 DEF NewSniffer, TypeOK, Accounted
  <2>7. SniffersCapture'
    BY <1>2, <2>2 DEF NewSniffer, TypeOK, SniffersCapture
  <2>8. PacketFits'
    BY <1>2, <1>1 DEF NewSniffer
  <2>9. QED BY <2>4, <2>5, <2>6, <2>7, <2>8
<1>3. CASE CalculateBuffers
  <2>1. CASE Fail /\ at = "sizes"
    BY <1>1, <2>1
       DEF Fail, TypeOK, InProgress, Accounted, SniffersCapture, Handles, Current, Steps
  <2>2. CASE ~Fail
    <3>1. /\ ring' \in Sizes /\ PacketFits'
          /\ at = "sizes" /\ at' = "open"
          /\ UNCHANGED <<page, mode, open, promiscuous, filtered, sniffers>>
      BY <1>3, <2>2, Calculated
    <3>2. QED
      BY <3>1 DEF TypeOK, InProgress, Accounted, SniffersCapture, Handles, Current, Steps
  <2>3. QED BY <1>3, <2>1, <2>2 DEF CalculateBuffers
<1>4. CASE OpenDevice
  <2>1. CASE Fail /\ at = "open"
    BY <1>1, <2>1 DEF Fail, TypeOK, InProgress, Accounted, SniffersCapture, Handles, Current, Steps
  <2>2. CASE ~Fail
    <3>1. /\ open' = open \cup {Current} /\ Current \in Handles
          /\ at = "open" /\ at' = AfterOpen(mode[Current])
          /\ promiscuous' = IF mode[Current] \in {"pcap", "pfring"}
                            THEN promiscuous \cup {Current} ELSE promiscuous
          /\ UNCHANGED <<page, ring, mode, filtered, sniffers>>
      BY <1>0, <1>4, <2>2 DEF OpenDevice, TypeOK, Current
    <3>2. mode[Current] \in Modes
      BY <3>1 DEF TypeOK, Handles
    <3>3. at' \in {"promiscuous", "pollDuration", "filter"}
      BY <3>1 DEF AfterOpen
    <3>4. TypeOK'
      BY <3>1, <3>3 DEF TypeOK, Handles, Steps
    <3>5. InProgress'
      BY <3>1, <3>2 DEF InProgress, AfterOpen, Current, Modes
    <3>6. Accounted' /\ SniffersCapture'
      BY <3>1, <3>3 DEF InProgress, Accounted, SniffersCapture, Current
    <3>7. PacketFits'
      BY <1>1, <3>1
    <3>8. QED BY <3>4, <3>5, <3>6, <3>7
  <2>3. QED BY <1>4, <2>1, <2>2 DEF OpenDevice
<1>5. CASE SetPromiscuous
  <2>1. at = "promiscuous" /\ Current \in Handles
    BY <1>0, <1>5 DEF SetPromiscuous, TypeOK, Current
  <2>2. CASE Fail
    BY <1>1, <2>1, <2>2 DEF Fail, TypeOK, InProgress, Accounted, SniffersCapture, Handles, Current, Steps
  <2>3. CASE ~Fail
    BY <1>5, <1>1, <2>1, <2>3
       DEF SetPromiscuous, TypeOK, InProgress, Accounted, SniffersCapture, Handles, Current, Steps
  <2>4. QED BY <2>2, <2>3
<1>6. ASSUME CloseAndFail, at \notin {"idle", "open"} PROVE IInv'
  BY <1>6, <1>1 DEF CloseAndFail, TypeOK, InProgress, Accounted, SniffersCapture, Handles, Current, Steps
<1>7. CASE SetUpRing
  <2>1. at \in {"pollDuration", "socketMode", "enable"}
    BY <1>7 DEF SetUpRing, AfterSetting
  <2>2. CASE CloseAndFail
    BY <1>6, <2>1, <2>2
  <2>3. CASE ~CloseAndFail
    <3>1. at' \in {"socketMode", "enable", "filter"}
          /\ UNCHANGED <<page, ring, mode, open, promiscuous, filtered, sniffers>>
      BY <1>7, <2>1, <2>3 DEF SetUpRing, AfterSetting
    <3>2. QED
      BY <1>1, <2>1, <3>1 DEF TypeOK, InProgress, Accounted, SniffersCapture, Handles, Current, Steps
  <2>4. QED BY <2>2, <2>3
<1>8. CASE SetBPFFilter
  <2>1. at = "filter" /\ Current \in Handles
    BY <1>0, <1>8 DEF SetBPFFilter, TypeOK, Current
  <2>2. CASE CloseAndFail
    BY <1>6, <2>1, <2>2
  <2>3. CASE ~CloseAndFail
    BY <1>8, <1>1, <2>1, <2>3
       DEF SetBPFFilter, TypeOK, InProgress, Accounted, SniffersCapture, Handles, Current, Steps
  <2>4. QED BY <2>2, <2>3
<1>9. CASE UNCHANGED vars
  BY <1>9, <1>1 DEF vars, TypeOK, InProgress, Accounted, SniffersCapture, Handles, Current, Steps
<1>10. QED BY <1>2, <1>3, <1>4, <1>5, <1>7, <1>8, <1>9 DEF Next

(* On any platform and after any number of calls, the one failed step that *)
(* leaves a handle open is that of setting an AF_PACKET handle to          *)
(* promiscuous mode; whichever other step of the opening fails, its handle *)
(* is closed (handle.go:19-96).                                            *)
THEOREM FailuresRelease == Spec => []FailureReleases
<1>1. IInv => FailureReleases
  BY DEF IInv, Accounted, FailureReleases
<1>2. QED BY InitInv, NextInv, <1>1, PTL DEF Spec

(* Every Sniffer captures through an open, filtered handle (sniffer.go:109). *)
THEOREM SniffersAlwaysCapture == Spec => []SniffersCapture
<1>1. IInv => SniffersCapture
  BY DEF IInv
<1>2. QED BY InitInv, NextInv, <1>1, PTL DEF Spec

(* Whatever the target, the snaplen and the page size: if the sizes of a   *)
(* ring are computed without an error (afpacket.go:9), a packet fits a     *)
(* frame of it.                                                            *)
THEOREM PacketAlwaysFits == Spec => []PacketFits
<1>1. IInv => PacketFits
  BY DEF IInv
<1>2. QED BY InitInv, NextInv, <1>1, PTL DEF Spec
=============================================================================
