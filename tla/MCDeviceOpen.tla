----------------------------- MODULE MCDeviceOpen -----------------------------
(* Instances of DeviceOpen and DeviceLookup for TLC. *)
EXTENDS DeviceLookup

CONSTANTS eth, wlan

(* Of two adapters the one that is listed first may be missing. *)
SomeLists == {<<eth, wlan>>, <<wlan>>}

SomeIndexes == -1..1
=============================================================================
