---------------------------- MODULE DeviceLookup ----------------------------
(***************************************************************************)
(* How a client comes to the device that it passes to NewSniffer: it lists *)
(* the adapters (ListDeviceNames of devices/device.go), has the one it     *)
(* names or counts looked up (FindDeviceByName), and opens it (DeviceOpen). *)
(* Each of the three asks the system anew, and adapters come and go.       *)
(***************************************************************************)
EXTENDS DeviceOpen

CONSTANTS
  Lists,      \* lists of adapters the system may have, none named by a number
  Indexes,    \* the numbers that a client passes as names
  MaxChanges  \* bound: how often the adapters change

(* "any", and what is no device: a file, an error, a panic. *)
NoDevices == {"any", "file", "error", "panic"}

Names == UNION {{l[i] : i \in DOMAIN l} : l \in Lists}

ASSUME DeviceLookupAssumption ==
  /\ \A l \in Lists : l \in Seq(Names)
  /\ Names \cap (NoDevices \cup {None}) = {}
  /\ Indexes \subseteq Int /\ MaxChanges \in Nat

VARIABLES
  adapters, \* the adapters of the system, in the order of FindAllDevs
  listed,   \* the list that the client has seen last
  changes,  \* how often the adapters have changed
  found,    \* what FindDeviceByName has returned last
  meant,    \* what that list has at the index that was looked up, or None
  targets   \* for each handle, what it captures and what the client meant

lookup == <<adapters, listed, changes, found, meant, targets>>

LookupInit ==
  /\ Init
  /\ adapters \in Lists /\ listed = <<>> /\ changes = 0
  /\ found = "error" /\ meant = None /\ targets = <<>>

(* A panic ends the process.  A client lists and looks up between calls of *)
(* NewSniffer, which asks for no list itself.                              *)
Between == at = "idle" /\ found # "panic"

(* An adapter comes or goes. *)
Change ==
  /\ Between /\ changes < MaxChanges
  /\ adapters' \in Lists \ {adapters}
  /\ changes' = changes + 1
  /\ UNCHANGED <<vars, listed, found, meant, targets>>

(* ListDeviceNames, unless it fails: an entry per adapter, with or without *)
(* its description and addresses.                                          *)
ListDeviceNames ==
  /\ Between
  /\ listed' = adapters
  /\ UNCHANGED <<vars, adapters, changes, found, meant, targets>>

(* The device at an index, counted from 0. *)
At(index) == adapters[index + 1]

(* FindDeviceByName for a number: it lists the adapters itself, which may  *)
(* fail; an index is only compared with the end of the list.               *)
FindIndex(index) ==
  /\ \/ found' = "error"
     \/ index \in 0..Len(adapters) - 1 /\ found' = At(index)
     \/ index < 0 /\ found' = "panic"
  /\ meant' = IF index \in 0..Len(listed) - 1 THEN listed[index + 1] ELSE None

(* FindDeviceByName without a name, and with one, which it returns as is. *)
FindEmpty == found' = (IF Linux THEN "any" ELSE "error") /\ meant' = None
FindName(name) == found' = name /\ meant' = name

FindDeviceByName ==
  /\ Between
  /\ \/ \E index \in Indexes : FindIndex(index)
     \/ FindEmpty
     \/ \E name \in Names : FindName(name)
  /\ UNCHANGED <<vars, adapters, listed, changes, targets>>

(* The client passes what it has found, or the path of a file, and looks   *)
(* the next device up again.                                               *)
Open ==
  /\ Between /\ NewSniffer
  /\ \/ /\ mode'[Len(mode')] = "file"
        /\ targets' = Append(targets, [device |-> "file", meant |-> None])
     \/ /\ mode'[Len(mode')] # "file" /\ found # "error"
        /\ targets' = Append(targets, [device |-> found, meant |-> meant])
  /\ found' = "error" /\ meant' = None
  /\ UNCHANGED <<adapters, listed, changes>>

OpenStep ==
  /\ CalculateBuffers \/ OpenDevice \/ SetPromiscuous \/ SetUpRing \/ SetBPFFilter
  /\ UNCHANGED lookup

LookupNext == Change \/ ListDeviceNames \/ FindDeviceByName \/ Open \/ OpenStep

LookupSpec == LookupInit /\ [][LookupNext]_<<vars, lookup>>
-----------------------------------------------------------------------------
(* A Sniffer captures from the adapter that the client has seen listed     *)
(* under its index.  It need not: "the device at that index"               *)
(* (device.go:66) is that of a list made by the lookup itself, and         *)
(* adapters may have come or gone since the client has seen one.           *)
CapturesWhatWasMeant ==
  \A h \in sniffers : targets[h].meant # None => targets[h].device = targets[h].meant

(* A lookup does not panic: it does, for a negative index (device.go:87).  *)
LookupNoPanic == found # "panic"
=============================================================================
