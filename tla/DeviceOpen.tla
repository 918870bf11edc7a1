----------------------------- MODULE DeviceOpen -----------------------------
(***************************************************************************)
(* How NewSniffer (sniffer.go) gets its capture handle from the Open        *)
(* functions of devices/handle.go, and those from the platform: each step   *)
(* of the opening may fail.  Calls of NewSniffer follow one another, as     *)
(* when a client tries another mode; handle n is that of the n-th call that *)
(* gets as far as opening one.                                              *)
(***************************************************************************)
EXTENDS AFPacketBuffers, Sequences

CONSTANTS
  Linux,        \* built for Linux; on other platforms newAFPacketHandle and newPFRingHandle fail
  PageSizes,    \* sizes that a memory page may have
  Snaplens,     \* most bytes to capture of a packet; OpenAFPacket passes 1600
  TargetSizes,  \* target sizes of the ring in MB; NewSniffer passes 25
  None,         \* no ring
  MaxCalls      \* bound: calls that get as far as opening a handle

Sizes == [target : TargetSizes, snaplen : Snaplens, frame : Nat, block : Nat, count : Nat]

ASSUME DeviceOpenAssumption ==
  /\ Linux \in BOOLEAN /\ MaxCalls \in Nat
  /\ PageSizes \subseteq Nat \ {0} /\ Snaplens \subseteq Nat \ {0} /\ TargetSizes \subseteq Nat
  /\ None \notin Sizes

VARIABLES
  page,         \* the size of a memory page
  ring,         \* the sizes computed last for an AF_PACKET handle, or None
  mode,         \* the mode of each handle
  at,           \* the next step of the call in progress, "idle" without one
  open,         \* handles that have been opened and not been closed
  promiscuous,  \* handles in promiscuous mode
  filtered,     \* handles with the BPF filter
  sniffers      \* handles of the Sniffers that have been returned

vars == <<page, ring, mode, at, open, promiscuous, filtered, sniffers>>

Modes == {"file", "pcap", "pfring", "afpacket"}
Steps == {"idle", "sizes", "open", "promiscuous", "pollDuration", "socketMode", "enable", "filter"}
Handles == 1..Len(mode)
Current == Len(mode)

Init ==
  /\ page \in PageSizes /\ ring = None
  /\ mode = <<>> /\ at = "idle"
  /\ open = {} /\ promiscuous = {} /\ filtered = {} /\ sniffers = {}

(* NewSniffer with a source and a known mode; without, it has no effect. *)
NewSniffer ==
  /\ at = "idle" /\ Len(mode) < MaxCalls
  /\ \E m \in Modes :
       /\ mode' = Append(mode, m)
       /\ at' = IF m = "afpacket" THEN "sizes" ELSE "open"
  /\ UNCHANGED <<page, ring, open, promiscuous, filtered, sniffers>>

(* The call returns an error. *)
Fail == at' = "idle" /\ UNCHANGED <<page, ring, mode, open, promiscuous, filtered, sniffers>>

(* The same, after closing the handle; mutated, it stays open. *)
FailOnly == Fail
CloseAndFail ==
  /\ open' = open \ {Current} /\ at' = "idle"
  /\ UNCHANGED <<page, ring, mode, promiscuous, filtered, sniffers>>

(* OpenAFPacket begins with afpacketCalculateBuffers. *)
CalculateBuffers ==
  /\ at = "sizes"
  /\ \E target \in TargetSizes, snap \in Snaplens :
       LET block == BlockSize(snap, page)
           count == BlockCount(target, block)
       IN \/ count = 0 /\ Fail
          \/ /\ count # 0
             /\ ring' = [target |-> target, snaplen |-> snap,
                         frame |-> FrameSize(snap, page), block |-> block, count |-> count]
             /\ at' = "open"
             /\ UNCHANGED <<page, mode, open, promiscuous, filtered, sniffers>>

Supported(m) == m \in {"file", "pcap"} \/ Linux

(* What follows the opening of a handle. *)
AfterOpen(m) ==
  CASE m = "afpacket" -> "promiscuous"
    [] m = "pfring"   -> "pollDuration"
    [] OTHER          -> "filter"

(* OpenOffline, OpenLive, NewTPacket or NewRing. *)
OpenDevice ==
  /\ at = "open"
  /\ \/ Fail
     \/ /\ Supported(mode[Current])
        /\ open' = open \cup {Current}
        /\ promiscuous' = IF mode[Current] \in {"pcap", "pfring"}
                          THEN promiscuous \cup {Current} ELSE promiscuous
        /\ at' = AfterOpen(mode[Current])
        /\ UNCHANGED <<page, ring, mode, filtered, sniffers>>

(* TPacket.SetPromiscuous: newAFPacketHandle returns its error together    *)
(* with the handle, which OpenAFPacket then drops without closing it.      *)
SetPromiscuous ==
  /\ at = "promiscuous"
  /\ \/ Fail
     \/ /\ promiscuous' = promiscuous \cup {Current}
        /\ at' = "filter"
        /\ UNCHANGED <<page, ring, mode, open, filtered, sniffers>>

(* newPFRingHandle: SetPollDuration, SetSocketMode, Enable. *)
AfterSetting == [pollDuration |-> "socketMode", socketMode |-> "enable", enable |-> "filter"]
SetUpRing ==
  /\ at \in DOMAIN AfterSetting
  /\ \/ CloseAndFail
     \/ /\ at' = AfterSetting[at]
        /\ UNCHANGED <<page, ring, mode, open, promiscuous, filtered, sniffers>>

(* Mutated SetBPFFilter: NewSniffer returns a Sniffer also when it fails. *)
SetBPFFilterUnchecked ==
  /\ at = "filter" /\ at' = "idle"
  /\ sniffers' = sniffers \cup {Current}
  /\ filtered' \in {filtered, filtered \cup {Current}}
  /\ UNCHANGED <<page, ring, mode, open, promiscuous>>

(* SetBPFFilter, the last step: NewSniffer returns a Sniffer. *)
SetBPFFilter ==
  /\ at = "filter"
  /\ \/ CloseAndFail
     \/ /\ at' = "idle"
        /\ filtered' = filtered \cup {Current}
        /\ sniffers' = sniffers \cup {Current}
        /\ UNCHANGED <<page, ring, mode, open, promiscuous>>

Next == NewSniffer \/ CalculateBuffers \/ OpenDevice \/ SetPromiscuous \/ SetUpRing \/ SetBPFFilter

Spec == Init /\ [][Next]_vars
-----------------------------------------------------------------------------
TypeOK ==
  /\ page \in PageSizes /\ ring \in Sizes \cup {None}
  /\ mode \in Seq(Modes) /\ Len(mode) <= MaxCalls
  /\ at \in Steps /\ (at # "idle" => mode # <<>>)
  /\ open \subseteq Handles /\ promiscuous \subseteq Handles
  /\ filtered \subseteq Handles /\ sniffers \subseteq Handles

(* Which step of the opening has failed (handle.go:19-96), and is all that *)
(* may leave a handle open: between calls the open handles are those of    *)
(* Sniffers and the AF_PACKET handles whose promiscuous mode was refused,  *)
(* which OpenAFPacket leaves open.  Every other failed step closes.        *)
FailureReleases ==
  at = "idle" =>
    \A h \in open : h \in sniffers \/ (mode[h] = "afpacket" /\ h \notin promiscuous)

(* A Sniffer's handle is open, has the filter for the game's ports         *)
(* (sniffer.go:109) and, unless it reads a file, is in promiscuous mode,   *)
(* whichever way it was opened and whatever failed before.                 *)
SniffersCapture ==
  \A h \in sniffers :
    /\ h \in open /\ h \in filtered
    /\ mode[h] # "file" => h \in promiscuous

(* A frame of the ring has room for a packet of snaplen bytes              *)
(* (afpacket.go:10): dividing a page twice rounds twice, and both times    *)
(* the packet must still fit.                                              *)
PacketFits == ring # None => ring.frame >= ring.snaplen

(* "Block size must be divisible by both the frame and page size"          *)
(* (afpacket.go:7).                                                        *)
PageAligned == ring # None => ring.block % ring.frame = 0 /\ ring.block % page = 0
=============================================================================
