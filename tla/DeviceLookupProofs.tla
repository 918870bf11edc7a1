------------------------- MODULE DeviceLookupProofs -------------------------
(***************************************************************************)
(* Proofs about DeviceLookup, for any adapters, however often they change, *)
(* and any number of calls: what is shown of NewSniffer holds whatever the *)
(* client looks up.                                                        *)
(***************************************************************************)
EXTENDS DeviceLookup, DeviceOpenProofs

LEMMA LookupStep ==
  ASSUME [LookupNext]_<<vars, lookup>>
  PROVE  [Next]_vars
<1>1. CASE Change \/ ListDeviceNames \/ FindDeviceByName
  BY <1>1 DEF Change, ListDeviceNames, FindDeviceByName
<1>2. CASE Open
  BY <1>2 DEF Open, Next
<1>3. CASE OpenStep
  BY <1>3 DEF OpenStep, Next
<1>4. QED BY <1>1, <1>2, <1>3 DEF LookupNext

(* No lookup adds to what NewSniffer does (handle.go:19).                  *)
LEMMA LookupRefines == LookupSpec => Spec
<1>1. LookupInit => Init
  BY DEF LookupInit
<1>2. [LookupNext]_<<vars, lookup>> => [Next]_vars
  BY LookupStep
<1>3. QED BY <1>1, <1>2, PTL DEF LookupSpec, Spec

(* Whatever was looked up, the handle of every Sniffer is open, filtered   *)
(* and, unless it reads a file, promiscuous (sniffer.go:109).              *)
THEOREM LookupSniffersCapture == LookupSpec => []SniffersCapture
BY LookupRefines, SniffersAlwaysCapture, PTL
=============================================================================
