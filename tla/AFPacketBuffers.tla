--------------------------- MODULE AFPacketBuffers ---------------------------
(***************************************************************************)
(* The sizes of the ring buffer of an AF_PACKET handle, as                  *)
(* afpacketCalculateBuffers (devices/afpacket.go) computes them: in bytes,  *)
(* from the most bytes to capture of a packet, the size of a memory page    *)
(* and a target size of the ring in MB.                                     *)
(***************************************************************************)
EXTENDS Integers

MB == 1024 * 1024
FramesPerBlock == 128

(* Mutated: the number of packets that share a page is rounded up. *)
FrameSizeShared(snap, page) ==
  IF snap < page THEN page \div ((page - 1) \div snap + 1) ELSE ((snap \div page) + 1) * page

(* Packets that share a page get equal parts of it; longer ones get pages. *)
FrameSize(snap, page) ==
  IF snap < page THEN page \div (page \div snap) ELSE ((snap \div page) + 1) * page

BlockSize(snap, page) == FrameSize(snap, page) * FramesPerBlock

(* As many blocks as the target has room for. *)
BlockCount(target, block) == (target * MB) \div block
=============================================================================
